---- MODULE Spec2Model ----
(***************************************************************************)
(* Pen plotter: HPGL parser and path resampler (main.py startup), motion    *)
(* coordination state machine (main.py task_main), the acceleration-       *)
(* parameter search of the TMC4210 driver (stepperdriver.py set_accel),    *)
(* the driver's SPI transactions (stepperdriver.py StepperDriver) and the  *)
(* Newton-Raphson stage of startup (main.py NewtonRaphson, startup).       *)
(***************************************************************************)
EXTENDS Integers, Sequences, FiniteSets, TLC

VARIABLES
    \* ---- startup(): resampling loop (main.py 144-214)
    STEPS,        \* the parsed RawCommand list
    idx,          \* 1-based index of the command the loop is at
    interp,       \* lines written to Interpolated.txt, coordinates in 1/(N-1) units
    elements,     \* number of lines written
    rs_pc,        \* "loop" | "closed" | "IndexError"
    \* ---- task_main(): the coordination state machine (main.py 288-375)
    state,        \* S0_INIT | S1_PLOT | S2_DONE
    step,         \* the step index
    pen_is_up,    \* the pen flag
    update,       \* the fetch-next flag
    printed,      \* the completion notice was printed
    pen_CMD,      \* the current command: its pen kind ...
    m1_CMD,       \* ... and its joint targets, in microsteps
    m2_CMD,
    num,          \* elements.get(): the count startup() returned
    sendFile,     \* the lines of Send.txt
    sendPos,      \* lines of Send.txt read so far
    sendOpen,     \* "unopened" | "open" | "closed"
    penPos,       \* the actuator: "up" | "down", the last of pen_up()/pen_down()
    X_TARGET,     \* per motor, the chip's target position register
    X_ACTUAL,     \* per motor, the chip's actual position register
    tk,           \* parity of the number of ticks (yields) so far
    acts,         \* what the last tick did, in program order
    history,      \* every pen, stream and print operation so far, in order
    \* ---- StepperDriver.set_accel (stepperdriver.py 204-250)
    max_accel,    \* the argument
    spi,          \* the datagrams sent so far
    ac_pc,        \* "call" | "returned" | "ZeroDivisionError"
    \* ---- StepperDriver, one instance per motor (stepperdriver.py 23-356)
    nCS,          \* per instance, the level of its chip-select pin: 0 low, 1 high
    built,        \* per instance, __init__ has returned
    TX_buf,       \* per instance, the 4-byte transmit buffer
    RX_buf,       \* per instance, the 4-byte receive buffer
    RAMP_MODE,    \* per motor, the mode bits of the chip's RAMP_MODE register
    d_pc,         \* "idle" | "run" (select high) | "low" (selected) | "sent" | "ValueError"
    d_call,       \* the method running, or the last one that ran
    d_todo,       \* the transfers and prints the running method still has to make
    d_sent,       \* the datagrams the method has transferred, in order
    d_reads,      \* the register values the method has decoded from RX_buf
    d_ret,        \* the value the last method returned
    d_out,        \* the lines the method has printed
    d_theta,      \* per instance, the argument of its last set_target_pos
    \* ---- startup(): the HPGL parser (main.py 99-132)
    hpgl,         \* the commands of the file as written: mnemonic and arguments
    command_list, \* the same commands as text, one sequence of characters each
    cmd_i,        \* 1-based index of the command the loop is at
    ps_pc,        \* "loop" | "parsed"
    \* ---- startup(): the Newton-Raphson stage (main.py 226-286, 56-77)
    nr_pc,        \* "idle" | "loop" | "solve" | "returned" | "ValueError"
    nr_i,         \* i, the number of lines of Interpolated.txt done
    x_des,        \* the desired location of the iteration
    theta_n,      \* the iterate of NewtonRaphson
    nr_theta,     \* theta, what NewtonRaphson returned last
    th1,          \* theta1 % 2*pi of the last solve
    th2,          \* theta2 of the last solve
    send,         \* the lines written to Send.txt
    nr_ret,       \* what startup() returned, <<>> before it returns
    guesses       \* the guess of every call of NewtonRaphson so far, in order

rsVars == <<STEPS, idx, interp, elements, rs_pc>>

tkVars == <<state, step, pen_is_up, update, printed, pen_CMD, m1_CMD, m2_CMD, num,
            sendFile, sendPos, sendOpen, penPos, X_TARGET, X_ACTUAL, tk, acts, history>>

acVars == <<max_accel, spi, ac_pc>>

drVars == <<nCS, built, TX_buf, RX_buf, RAMP_MODE, d_pc, d_call, d_todo, d_sent,
            d_reads, d_ret, d_out, d_theta>>

psVars == <<hpgl, command_list, cmd_i, ps_pc>>

nrVars == <<nr_pc, nr_i, x_des, theta_n, nr_theta, th1, th2, send, nr_ret, guesses>>

vars == <<rsVars, tkVars, acVars, drVars, psVars, nrVars>>

(***************************************************************************)
(* Bounds of the model.                                                    *)
(***************************************************************************)
MaxSteps == 3
MaxCmds == 4
MaxAccel == 2047
MaxNegAccel == 2
LargeAccel == 4290
MaxLargeSpan == 10
AngleDen == 4
MaxCommands == 2
MaxTheta1 == 6
MaxWaypoints == 2

(***************************************************************************)
(* Path resampler.                                                         *)
(***************************************************************************)
N == 3
max_dist == 10

\* Coordinates the inputs are drawn from: segments of length 6, 8, 10 (= max_dist),
\* 16, ~17.1, 24 (> 2*max_dist) and ~24.7 all occur.
CoordXs == {0, 8, 24}
CoordYs == {0, 6}

RawCommands == [kind : {"PU", "PD"}, x : CoordXs, y : CoordYs]

StepLists == UNION {[1..n -> RawCommands] : n \in 0..MaxSteps}

\* linspace(a,b,n) = [diff*i + a for i in range(n-1)], diff = (b-a)/(n-1).
\* The result is kept exact by expressing it in units of 1/(n-1).
linspace(a, b, n) == [i \in 1..(n - 1) |-> (b - a) * (i - 1) + a * (n - 1)]

\* One unit of the source is Scale units of the waypoint file.
Scale == N - 1

\* A RawCommand written unchanged.
Unchanged(c) == [kind |-> c.kind, x |-> c.x * Scale, y |-> c.y * Scale]

\* next_dist > max_dist, with next_dist = sqrt(dx^2 + dy^2).
TooFar(c, nextstep) ==
    (nextstep.x - c.x) * (nextstep.x - c.x) + (nextstep.y - c.y) * (nextstep.y - c.y)
        > max_dist * max_dist

\* The lines written for a 'PU' command at index i (main.py 154-187).
WritePU(i) ==
    LET coords == STEPS[i] IN
    IF i + 1 <= Len(STEPS)
    THEN LET nextstep == STEPS[i + 1] IN
         IF TooFar(coords, nextstep)
         THEN LET xA == linspace(coords.x, nextstep.x, N)
                  yA == linspace(coords.y, nextstep.y, N)
              IN [k \in 1..Len(xA) |->
                    [kind |-> IF k = 1 THEN "PU" ELSE "PD", x |-> xA[k], y |-> yA[k]]]
         ELSE <<Unchanged(coords)>>
    ELSE <<Unchanged(coords)>>

\* The lines written for a 'PD' command at index i that has a successor
\* (main.py 189-209).
WritePD(i) ==
    LET coords == STEPS[i]
        nextstep == STEPS[i + 1]
    IN IF nextstep.kind = "PD"
       THEN IF TooFar(coords, nextstep)
            THEN LET xA == linspace(coords.x, nextstep.x, N)
                     yA == linspace(coords.y, nextstep.y, N)
                 IN [k \in 1..Len(xA) |-> [kind |-> "PD", x |-> xA[k], y |-> yA[k]]]
            ELSE <<Unchanged(coords)>>
       ELSE <<Unchanged(coords)>>

\* One iteration of the loop on a 'PU' command.
ResamplePU ==
    /\ rs_pc = "loop"
    /\ idx <= Len(STEPS)
    /\ STEPS[idx].kind = "PU"
    /\ interp' = interp \o WritePU(idx)
    /\ elements' = elements + Len(WritePU(idx))
    /\ idx' = idx + 1
    /\ UNCHANGED <<STEPS, rs_pc>>

\* One iteration of the loop on a 'PD' command that is not the last one.
ResamplePD ==
    /\ rs_pc = "loop"
    /\ idx < Len(STEPS)
    /\ STEPS[idx].kind = "PD"
    /\ interp' = interp \o WritePD(idx)
    /\ elements' = elements + Len(WritePD(idx))
    /\ idx' = idx + 1
    /\ UNCHANGED <<STEPS, rs_pc>>

\* A 'PD' command in the last place: STEPS[idx+1] raises IndexError (main.py 191).
ResamplePDLast ==
    /\ rs_pc = "loop"
    /\ idx = Len(STEPS)
    /\ STEPS[idx].kind = "PD"
    /\ rs_pc' = "IndexError"
    /\ UNCHANGED <<STEPS, idx, interp, elements>>

\* The loop is over: interp.close() (main.py 214).
ResampleClose ==
    /\ rs_pc = "loop"
    /\ idx = Len(STEPS) + 1
    /\ rs_pc' = "closed"
    /\ UNCHANGED <<STEPS, idx, interp, elements>>

(***************************************************************************)
(* Motion coordination state machine (task_main) with the two motors and   *)
(* the pen actuator it drives.                                             *)
(***************************************************************************)
S0_INIT == 0
S1_PLOT == 1
S2_DONE == 2

\* pos_tolerance, in microsteps (one microstep is 2*pi/(8*48) rad).
pos_tolerance == 0

Motors == {1, 2}

\* int(angle * (8*48)/(2*pi)), the microstep value set_target_pos and set_zero send:
\* 3*4*pi/9 gives int(255.99999999999997), 105*pi/4 gives 5040, 110*2*pi/8 gives 5280.
Home1 == 255
Home2 == 5040
Zero1 == 255
Zero2 == 5280

\* The joint targets the commands of Send.txt are drawn from, as microstep values.
Targets == {<<254, 5279>>, <<256, 5281>>}

MotionCommands == {[pen |-> p, th1 |-> t[1], th2 |-> t[2]] : p \in {"PU", "PD"}, t \in Targets}

SendFiles == UNION {[1..n -> MotionCommands] : n \in 0..MaxCmds}

\* One operation of a tick: op names it, m is the motor (0: none), v its value.
Ev(op, m, v) == [op |-> op, m |-> m, v |-> v]

Abs(i) == IF i < 0 THEN 0 - i ELSE i

\* set_target_pos: the 3 payload bytes of the X_TARGET datagram reach motor m's register.
set_target_pos(XT, m, target_pos) == [XT EXCEPT ![m] = target_pos % 16777216]

\* get_pos and get_target_pos: live reads of the chip's registers.
get_pos(m) == X_ACTUAL[m]

get_target_pos(XT, m) == XT[m]

\* arrived(tolerance), on the registers as they are after the tick's target writes.
arrived(XT, m, tolerance) == Abs(get_pos(m) - get_target_pos(XT, m)) <= tolerance

\* The arrival test with motor2.arrived left out.
BothArrivedFirstOnly(XT) == arrived(XT, 1, pos_tolerance)

\* motor1.arrived(pos_tolerance) and motor2.arrived(pos_tolerance)
BothArrived(XT) == arrived(XT, 1, pos_tolerance) /\ arrived(XT, 2, pos_tolerance)

\* The reads the 'and' makes: motor2.arrived is called only when motor1 has arrived.
Poll(XT) ==
    IF arrived(XT, 1, pos_tolerance)
    THEN <<Ev("arrived", 1, 1),
           Ev("arrived", 2, IF arrived(XT, 2, pos_tolerance) THEN 1 ELSE 0)>>
    ELSE <<Ev("arrived", 1, 0)>>

\* The command the tick works on: the line read when update is set (main.py 320-330),
\* the command kept from the earlier tick otherwise.
CurLine ==
    IF update
    THEN sendFile[sendPos + 1]
    ELSE [pen |-> pen_CMD, th1 |-> m1_CMD, th2 |-> m2_CMD]

FetchActs == IF update THEN <<Ev("readline", 0, sendPos + 1), Ev("uart", 0, 0)>> ELSE <<>>

FetchHistory == IF update THEN <<Ev("readline", 0, sendPos + 1)>> ELSE <<>>

\* A tick of S1_PLOT with step < elements - 1 (main.py 319-356). penActs, penUp and
\* pos are the branch's pen operation, pen flag and pen position; mode is "gated"
\* when the branch ends in the arrival test and "none" when it has none.
PlotTick(penActs, penUp, pos, mode) ==
    LET XT == set_target_pos(set_target_pos(X_TARGET, 1, CurLine.th1), 2, CurLine.th2)
        adv == \/ mode = "gated" /\ BothArrived(XT)
               \/ mode = "always"
    IN /\ pen_CMD' = CurLine.pen
       /\ m1_CMD' = CurLine.th1
       /\ m2_CMD' = CurLine.th2
       /\ sendPos' = IF update THEN sendPos + 1 ELSE sendPos
       /\ pen_is_up' = penUp
       /\ penPos' = pos
       /\ X_TARGET' = XT
       /\ step' = IF adv THEN step + 1 ELSE step
       /\ update' = adv
       /\ acts' = FetchActs \o penActs
                    \o <<Ev("target", 1, CurLine.th1), Ev("target", 2, CurLine.th2)>>
                    \o (IF mode = "gated" THEN Poll(XT) ELSE <<>>)
                    \o (IF adv THEN <<Ev("advance", 0, step + 1)>> ELSE <<>>)
       /\ history' = history \o FetchHistory \o penActs
       /\ tk' = 1 - tk
       /\ UNCHANGED <<state, printed, num, sendFile, sendOpen, X_ACTUAL>>

\* S0_INIT with the assignment state = S1_PLOT left out.
TickInitStay ==
    /\ state = S0_INIT
    /\ step' = 0
    /\ pen_is_up' = FALSE
    /\ update' = TRUE
    /\ sendOpen' = "open"
    /\ sendPos' = 0
    /\ acts' = <<Ev("open", 0, 0)>>
    /\ tk' = 1 - tk
    /\ UNCHANGED <<state, printed, pen_CMD, m1_CMD, m2_CMD, num, sendFile, penPos,
                   X_TARGET, X_ACTUAL, history>>

\* S0_INIT with the fetch-next flag left clear.
TickInitNoFetch ==
    /\ state = S0_INIT
    /\ step' = 0
    /\ pen_is_up' = FALSE
    /\ update' = FALSE
    /\ sendOpen' = "open"
    /\ sendPos' = 0
    /\ state' = S1_PLOT
    /\ acts' = <<Ev("open", 0, 0)>>
    /\ tk' = 1 - tk
    /\ UNCHANGED <<printed, pen_CMD, m1_CMD, m2_CMD, num, sendFile, penPos,
                   X_TARGET, X_ACTUAL, history>>

\* S0_INIT (main.py 309-315).
TickInit ==
    /\ state = S0_INIT
    /\ step' = 0
    /\ pen_is_up' = FALSE
    /\ update' = TRUE
    /\ sendOpen' = "open"
    /\ sendPos' = 0
    /\ state' = S1_PLOT
    /\ acts' = <<Ev("open", 0, 0)>>
    /\ tk' = 1 - tk
    /\ UNCHANGED <<printed, pen_CMD, m1_CMD, m2_CMD, num, sendFile, penPos,
                   X_TARGET, X_ACTUAL, history>>

\* pen_CMD == 'PU' and pen_is_up == False (main.py 332-339).
TickUpWhileDown ==
    /\ state = S1_PLOT
    /\ step < num - 1
    /\ CurLine.pen = "PU" /\ pen_is_up = FALSE
    /\ PlotTick(<<Ev("pen_up", 0, 0)>>, TRUE, "up", "gated")

\* pen_CMD == 'PU' and pen_is_up == True (main.py 340-345).
TickUpWhileUp ==
    /\ state = S1_PLOT
    /\ step < num - 1
    /\ CurLine.pen = "PU" /\ pen_is_up = TRUE
    /\ PlotTick(<<>>, pen_is_up, penPos, "gated")

\* The 'PD' while up branch advancing without an arrival test.
TickDownWhileUpAdvancing ==
    /\ state = S1_PLOT
    /\ step < num - 1
    /\ CurLine.pen = "PD" /\ pen_is_up = TRUE
    /\ PlotTick(<<Ev("pen_down", 0, 0)>>, FALSE, "down", "always")

\* pen_CMD == 'PD' and pen_is_up == True (main.py 346-350): no arrival test, the
\* step index and the fetch-next flag stay as they are.
TickDownWhileUp ==
    /\ state = S1_PLOT
    /\ step < num - 1
    /\ CurLine.pen = "PD" /\ pen_is_up = TRUE
    /\ PlotTick(<<Ev("pen_down", 0, 0)>>, FALSE, "down", "none")

\* The 'PD' while down branch taken up to the last command of the stream.
TickDownWhileDownToEnd ==
    /\ state = S1_PLOT
    /\ step < num
    /\ CurLine.pen = "PD" /\ pen_is_up = FALSE
    /\ PlotTick(<<>>, pen_is_up, penPos, "gated")

\* pen_CMD == 'PD' and pen_is_up == False (main.py 351-356).
TickDownWhileDown ==
    /\ state = S1_PLOT
    /\ step < num - 1
    /\ CurLine.pen = "PD" /\ pen_is_up = FALSE
    /\ PlotTick(<<>>, pen_is_up, penPos, "gated")

\* The finishing tick with the two home targets left out.
TickFinishNoHome ==
    /\ state = S1_PLOT
    /\ step = num - 1
    /\ penPos' = "up"
    /\ state' = S2_DONE
    /\ sendOpen' = "closed"
    /\ printed' = FALSE
    /\ acts' = <<Ev("print", 0, 0), Ev("pen_up", 0, 0), Ev("close", 0, 0)>>
    /\ history' = history \o <<Ev("print", 0, 0), Ev("pen_up", 0, 0), Ev("close", 0, 0)>>
    /\ tk' = 1 - tk
    /\ UNCHANGED <<step, pen_is_up, update, pen_CMD, m1_CMD, m2_CMD, num, sendFile,
                   sendPos, X_TARGET, X_ACTUAL>>

\* step == elements - 1 (main.py 358-365).
TickFinish ==
    /\ state = S1_PLOT
    /\ step = num - 1
    /\ penPos' = "up"
    /\ X_TARGET' = set_target_pos(set_target_pos(X_TARGET, 1, Home1), 2, Home2)
    /\ state' = S2_DONE
    /\ sendOpen' = "closed"
    /\ printed' = FALSE
    /\ acts' = <<Ev("print", 0, 0), Ev("pen_up", 0, 0), Ev("target", 1, Home1),
                 Ev("target", 2, Home2), Ev("close", 0, 0)>>
    /\ history' = history \o <<Ev("print", 0, 0), Ev("pen_up", 0, 0), Ev("close", 0, 0)>>
    /\ tk' = 1 - tk
    /\ UNCHANGED <<step, pen_is_up, update, pen_CMD, m1_CMD, m2_CMD, num, sendFile,
                   sendPos, X_ACTUAL>>

\* S1_PLOT with step > elements - 1 (an empty Send.txt): neither branch is taken.
TickPlotIdle ==
    /\ state = S1_PLOT
    /\ step > num - 1
    /\ acts' = <<>>
    /\ tk' = 1 - tk
    /\ UNCHANGED <<state, step, pen_is_up, update, printed, pen_CMD, m1_CMD, m2_CMD,
                   num, sendFile, sendPos, sendOpen, penPos, X_TARGET, X_ACTUAL, history>>

\* (the variant does not remember that it printed)
TickDonePrintAgain ==
    /\ state = S2_DONE
    /\ printed = FALSE
    /\ acts' = <<Ev("print", 0, 1)>>
    /\ history' = Append(history, Ev("print", 0, 1))
    /\ tk' = 1 - tk
    /\ UNCHANGED <<state, step, pen_is_up, update, printed, pen_CMD, m1_CMD, m2_CMD, num,
                   sendFile, sendPos, sendOpen, penPos, X_TARGET, X_ACTUAL>>

\* S2_DONE, first tick (main.py 367-370).
TickDonePrint ==
    /\ state = S2_DONE
    /\ printed = FALSE
    /\ printed' = TRUE
    /\ acts' = <<Ev("print", 0, 1)>>
    /\ history' = Append(history, Ev("print", 0, 1))
    /\ tk' = 1 - tk
    /\ UNCHANGED <<state, step, pen_is_up, update, pen_CMD, m1_CMD, m2_CMD, num,
                   sendFile, sendPos, sendOpen, penPos, X_TARGET, X_ACTUAL>>

\* S2_DONE, later ticks.
TickDoneIdle ==
    /\ state = S2_DONE
    /\ printed = TRUE
    /\ acts' = <<>>
    /\ tk' = 1 - tk
    /\ UNCHANGED <<state, step, pen_is_up, update, printed, pen_CMD, m1_CMD, m2_CMD,
                   num, sendFile, sendPos, sendOpen, penPos, X_TARGET, X_ACTUAL, history>>

\* The chip in ramp mode drives motor m to its target position.
MotorMove(m) ==
    /\ X_ACTUAL[m] # X_TARGET[m]
    /\ X_ACTUAL' = [X_ACTUAL EXCEPT ![m] = X_TARGET[m]]
    /\ UNCHANGED <<state, step, pen_is_up, update, printed, pen_CMD, m1_CMD, m2_CMD,
                   num, sendFile, sendPos, sendOpen, penPos, X_TARGET, tk, acts, history>>

(***************************************************************************)
(* StepperDriver.set_accel: the search for PMUL and PDIV and the two write *)
(* datagrams that follow it.                                               *)
(***************************************************************************)
\* Register addresses.
A_MAX == 6
PMUL_PDIV == 9

\* Number of PDIV values, len(range(14)), and of PMUL values, len(range(128,256)).
LenPd == 14
LenPm == 128
FirstPmul == 128

\* q > 0.95 and q < 1 for q = (pmul/max_accel) * 2**(4-pdiv), max_accel # 0:
\* q = 16*pmul / (max_accel * 2**pdiv), so 0.95 < q is 19 * max_accel * 2**pdiv <
\* 320 * pmul and q < 1 is 16 * pmul < max_accel * 2**pdiv, compared exactly (a
\* negative max_accel makes q negative).
\* (the variant accepts q = 1)
QInRangeClosed(ma, pmul, pdiv) ==
    /\ ma > 0
    /\ 19 * ma * 2^pdiv < 320 * pmul
    /\ 16 * pmul <= ma * 2^pdiv

QInRange(ma, pmul, pdiv) ==
    /\ ma > 0
    /\ 19 * ma * 2^pdiv < 320 * pmul
    /\ 16 * pmul < ma * 2^pdiv

\* The inner loop (stepperdriver.py 221-228), from pdiv on.
RECURSIVE SearchPdiv(_, _, _)
SearchPdiv(ma, pmul, pdiv) ==
    IF pdiv < LenPd
    THEN IF QInRange(ma, pmul, pdiv)
         THEN [valid |-> 1, pdiv |-> pdiv]
         ELSE SearchPdiv(ma, pmul, pdiv + 1)
    ELSE [valid |-> 0, pdiv |-> pdiv]

\* The iterations of the outer loop (stepperdriver.py 220-232) for pmul = lo..hi, in
\* ascending order: the first half of the range, then, if it found no valid pair, the
\* second half. (Splitting the range keeps the evaluation shallow; the order of the
\* iterations is the loop's.)
RECURSIVE ScanPmul(_, _, _)
ScanPmul(ma, lo, hi) ==
    IF lo = hi
    THEN LET r == SearchPdiv(ma, lo, 0)
         IN [valid |-> r.valid, pmul |-> lo, pdiv |-> r.pdiv]
    ELSE LET mid == (lo + hi) \div 2
             first == ScanPmul(ma, lo, mid)
         IN IF first.valid = 1 THEN first ELSE ScanPmul(ma, mid + 1, hi)

\* The values of pmul, pdiv and valid when the outer loop ends: a valid pair when
\* it broke out, pmul = 256 and pdiv = 14 when it ran to its end.
SearchPmul(ma) ==
    LET r == ScanPmul(ma, FirstPmul, LenPm + FirstPmul - 1)
    IN IF r.valid = 1 THEN r ELSE [valid |-> 0, pmul |-> r.pmul + 1, pdiv |-> r.pdiv]

\* The datagram that writes PMUL and PDIV (stepperdriver.py 234-237):
\* 0b10000000 | (pmul & 0b01111111) and pdiv & 0b00001111.
PmulPdivDatagram(pmul, pdiv) ==
    <<PMUL_PDIV * 2, 0, 128 + (pmul % 128), pdiv % 16>>

\* The datagram that writes A_MAX (stepperdriver.py 243-246):
\* (max_accel >> 8) & 0b111 and max_accel & 0b11111111.
AMaxDatagram(ma) ==
    <<A_MAX * 2, 0, (ma \div 256) % 8, ma % 256>>

\* set_accel(max_accel), max_accel # 0.
SetAccel ==
    /\ ac_pc = "call"
    /\ max_accel # 0
    /\ LET r == SearchPmul(max_accel)
       IN spi' = spi \o <<PmulPdivDatagram(r.pmul, r.pdiv), AMaxDatagram(max_accel)>>
    /\ ac_pc' = "returned"
    /\ UNCHANGED max_accel

\* set_accel(0): pmul/max_accel raises ZeroDivisionError in the first iteration.
SetAccelZero ==
    /\ ac_pc = "call"
    /\ max_accel = 0
    /\ ac_pc' = "ZeroDivisionError"
    /\ UNCHANGED <<max_accel, spi>>

\* The values of max_accel the calls are drawn from.
AccelInputs ==
    ((0 - MaxNegAccel)..MaxAccel) \cup (LargeAccel..(LargeAccel + MaxLargeSpan))

(***************************************************************************)
(* StepperDriver: each method as the SPI transfers and the prints it       *)
(* makes, in program order. A transfer is three steps: the buffer filled   *)
(* and the select pin pulled low, send_recv, the select pin raised.        *)
(***************************************************************************)
\* Register addresses (those of A_MAX and PMUL_PDIV are above).
X_TARGET_ADDR == 0
V_TARGET == 4
TYPE_VERSION == 57
X_ACTUAL_ADDR == 1
V_MIN == 2
V_MAX == 3
RAMP_MODE_ADDR == 10
PULSE_RAMP_DIV == 12
IF_CONF == 52

\* Angles are counted in fractions of a microstep: the number theta stands for the
\* angle of theta / AngleDen microsteps, (theta / AngleDen) * (2*pi)/(8*48) rad.

\* The arguments the calls are drawn from: angles of -1.25, -0.5 and 1.5 microsteps,
\* tolerances of 0 and 1.5 microsteps, the four mode names and one that is none.
AngleInputs == {0 - 5, 0 - 2, 6}
ToleranceInputs == {0, 6}
ModeInputs == {"ramp", "hold", "velocity", "soft", "position"}

\* Arguments of set_velocity: the ends of the 12-bit signed range, and on both sides
\* of the values whose low byte is the whole number.
VelocityInputs == {0 - 2048, 0 - 257, 0 - 256, 0 - 1, 0, 1, 255, 256, 2047}

\* int(x * (8*48)/(2*math.pi)): the number of microsteps, truncated toward zero.
usteps(theta) ==
    IF theta >= 0 THEN theta \div AngleDen ELSE 0 - ((0 - theta) \div AngleDen)

\* (v >> 8*k) & 0xFF, v of either sign.
Byte(v, k) == (v \div (256^k)) % 256

\* (RX_buf[1] << 16) | (RX_buf[2] << 8) | RX_buf[3]; buffers are indexed from 1 here.
Decode(buf) == buf[2] * 65536 + buf[3] * 256 + buf[4]

\* (reg << 1) | 0 with a position in the three payload bytes.
PosDatagram(reg, v) == <<reg * 2, Byte(v, 2), Byte(v, 1), Byte(v, 0)>>

\* (the variant sends the read with the access bit of a write)
ReadDatagramAsWrite(reg) == <<reg * 2, 0, 0, 0>>

\* (reg << 1) | 1 and three zero bytes.
ReadDatagram(reg) == <<reg * 2 + 1, 0, 0, 0>>

\* The steps of a method: a transfer of a datagram, or a printed line.
Xfer(d) == [k |-> "xfer", d |-> d, s |-> ""]

Say(s) == [k |-> "print", d |-> <<>>, s |-> s]

\* TX_buf[0..2] = d[1..3]; TX_buf[3] = d[4] with d[4] as the code computes it, not
\* reduced to a byte; then the transfer.
Store(d) == [k |-> "store", d |-> d, s |-> ""]

\* The datagram that writes RAMP_MODE with the given mode bits.
ModeDatagram(bits) == <<RAMP_MODE_ADDR * 2, 0, 4, bits>>

\* (the variant falls back to ramp mode for a name it does not know)
set_mode_defaulting(mode) ==
    IF mode = "hold"
    THEN <<Xfer(ModeDatagram(3)), Say("Setting to hold mode.")>>
    ELSE IF mode = "velocity"
    THEN <<Xfer(ModeDatagram(2)), Say("Setting to velocity mode.")>>
    ELSE IF mode = "soft"
    THEN <<Xfer(ModeDatagram(1)), Say("Setting to soft mode.")>>
    ELSE <<Xfer(ModeDatagram(0)), Say("Setting to ramp mode.")>>

set_mode(mode) ==
    IF mode = "ramp"
    THEN <<Xfer(ModeDatagram(0)), Say("Setting to ramp mode.")>>
    ELSE IF mode = "hold"
    THEN <<Xfer(ModeDatagram(3)), Say("Setting to hold mode.")>>
    ELSE IF mode = "velocity"
    THEN <<Xfer(ModeDatagram(2)), Say("Setting to velocity mode.")>>
    ELSE IF mode = "soft"
    THEN <<Xfer(ModeDatagram(1)), Say("Setting to soft mode.")>>
    ELSE <<Say("Invalid mode.")>>

set_divs(pulsediv, rampdiv) ==
    <<Xfer(<<PULSE_RAMP_DIV * 2, 0, (pulsediv % 16) * 16 + (rampdiv % 16), 0>>)>>

set_vmin(vmin) == <<Xfer(<<V_MIN * 2, 0, (vmin \div 256) % 8, vmin % 256>>)>>

set_vmax(vmax) == <<Xfer(<<V_MAX * 2, 0, (vmax \div 256) % 8, vmax % 256>>)>>

\* set_accel(max_accel), max_accel # 0, as the two transfers that end it.
set_accel(ma) ==
    LET r == SearchPmul(ma)
    IN <<Xfer(PmulPdivDatagram(r.pmul, r.pdiv)), Xfer(AMaxDatagram(ma))>>

\* (the variant configures the ramp mode before the acceleration)
StepperDriverModeFirst(reverse) ==
    <<Xfer(<<IF_CONF * 2, 0, 0, IF reverse THEN 48 ELSE 32>>)>>
        \o set_vmin(20) \o set_vmax(400) \o set_divs(9, 9)
        \o set_mode("ramp") \o set_accel(100)

\* __init__(nCS, ENN, spi, reverse).
StepperDriver(reverse) ==
    <<Xfer(<<IF_CONF * 2, 0, 0, IF reverse THEN 48 ELSE 32>>)>>
        \o set_vmin(20) \o set_vmax(400) \o set_divs(9, 9)
        \o set_accel(100) \o set_mode("ramp")

\* set_target_pos(target_pos) of the driver.
SetTargetPos(theta) == <<Xfer(PosDatagram(X_TARGET_ADDR, usteps(theta)))>>

\* (the variant writes the position while the chip is still in ramp mode)
set_zero_no_hold(offset) ==
    <<Xfer(PosDatagram(X_ACTUAL_ADDR, usteps(offset)))>> \o set_mode("ramp")

\* (the variant leaves the chip in hold mode)
set_zero_staying_in_hold(offset) ==
    set_mode("hold") \o <<Xfer(PosDatagram(X_ACTUAL_ADDR, usteps(offset)))>>

set_zero(offset) ==
    set_mode("hold")
        \o <<Xfer(PosDatagram(X_ACTUAL_ADDR, usteps(offset)))>>
        \o set_mode("ramp")

\* get_target_pos() and get_pos() of the driver, up to the decoding of RX_buf.
GetTargetPos == <<Xfer(ReadDatagram(X_TARGET_ADDR))>>

GetPos == <<Xfer(ReadDatagram(X_ACTUAL_ADDR))>>

\* arrived(tolerance): self.get_pos() is evaluated first, then self.get_target_pos().
Arrived == GetPos \o GetTargetPos

\* set_velocity(target_vel) (stepperdriver.py 180-201): a negative target_vel has
\* 2**12 added; byte 2 is (target_vel >> 8) & 0b1111, byte 3 is target_vel itself.
set_velocity(target_vel) ==
    LET v == IF target_vel < 0 THEN target_vel + 4096 ELSE target_vel
    IN  set_mode("velocity") \o <<Store(<<V_TARGET * 2, 0, (v \div 256) % 16, v>>)>>

\* test_version() (stepperdriver.py 79-95); the last line printed shows the reply.
test_version ==
    <<Say("Test version:"), Say("Retrieving datagram from TYPE_VERSION register."),
      Xfer(ReadDatagram(TYPE_VERSION)), Say("Received Datagram:")>>

\* (the variant compares with < )
ArrivedBoolStrict(reads, tolerance) ==
    Abs(reads[1] - reads[2]) * AngleDen < tolerance

\* abs(self.get_pos() - self.get_target_pos()) <= tolerance, the two values being the
\* microstep counts read, each times (2*pi)/(8*48).
ArrivedBool(reads, tolerance) ==
    Abs(reads[1] - reads[2]) * AngleDen <= tolerance

\* A call of a method on the instance of motor m.
Call(op, m, mode, arg) == [op |-> op, m |-> m, mode |-> mode, arg |-> arg]

\* Every method, with every argument, on the instance of motor m.
ApiCalls(m) ==
    {Call("StepperDriver", m, "", r) : r \in {0, 1}}
        \cup {Call("set_mode", m, md, 0) : md \in ModeInputs}
        \cup {Call("set_target_pos", m, "", t) : t \in AngleInputs}
        \cup {Call("set_zero", m, "", t) : t \in AngleInputs}
        \cup {Call("get_target_pos", m, "", 0), Call("get_pos", m, "", 0)}
        \cup {Call("arrived", m, "", t) : t \in ToleranceInputs}

\* The calls main.py makes on the instance of motor m (main.py 469-478,
\* 335-362), with one angle.
MainCalls(m) ==
    {Call("StepperDriver", m, "", 0), Call("set_zero", m, "", 6),
     Call("set_target_pos", m, "", 6), Call("arrived", m, "", pos_tolerance)}

\* The calls of the model: the first instance is called in every way, the second as
\* main.py calls it.
DriverCalls == ApiCalls(1) \cup MainCalls(2)

\* The steps of a call.
Program(c) ==
    CASE c.op = "StepperDriver" -> StepperDriver(c.arg = 1)
      [] c.op = "set_mode" -> set_mode(c.mode)
      [] c.op = "set_target_pos" -> SetTargetPos(c.arg)
      [] c.op = "set_zero" -> set_zero(c.arg)
      [] c.op = "get_target_pos" -> GetTargetPos
      [] c.op = "get_pos" -> GetPos
      [] c.op = "arrived" -> Arrived
      [] c.op = "set_velocity" -> set_velocity(c.arg)
      [] c.op = "test_version" -> test_version

\* What a call returns: <<>> for None, else the value; a position is returned as its
\* microstep count, standing for that count times (2*pi)/(8*48).
Result(c, reads) ==
    CASE c.op \in {"get_target_pos", "get_pos"} -> <<reads[1]>>
      [] c.op = "arrived" -> <<ArrivedBool(reads, c.arg)>>
      [] OTHER -> <<>>

\* The variables of the task other than the chips' position registers.
tkLocals == <<state, step, pen_is_up, update, printed, pen_CMD, m1_CMD, m2_CMD, num,
              sendFile, sendPos, sendOpen, penPos, tk, acts, history>>

\* A method is called: the constructor on an instance not built yet, any other
\* method on a built one.
DrCall ==
    /\ d_pc = "idle"
    /\ \E c \in DriverCalls :
          /\ (c.op = "StepperDriver") = (~built[c.m])
          /\ d_call' = c
          /\ d_todo' = Program(c)
    /\ d_sent' = <<>>
    /\ d_reads' = <<>>
    /\ d_out' = <<>>
    /\ d_ret' = <<>>
    /\ d_pc' = "run"
    /\ UNCHANGED <<nCS, built, TX_buf, RX_buf, RAMP_MODE, d_theta, X_TARGET, X_ACTUAL>>

\* The calls main.py makes on the two instances (main.py 469-478, 335-362), in any
\* order after the constructor: set_zero, then targets and arrival tests.
ProgramCalls ==
    UNION {{Call("StepperDriver", m, "", 0), Call("set_zero", m, "", 6),
            Call("set_target_pos", m, "", 10), Call("arrived", m, "", pos_tolerance)} :
           m \in Motors}

\* A method is called by __main__ or by the state machine.
DrCallMain ==
    /\ d_pc = "idle"
    /\ \E c \in ProgramCalls :
          /\ (c.op = "StepperDriver") = (~built[c.m])
          /\ d_call' = c
          /\ d_todo' = Program(c)
    /\ d_sent' = <<>>
    /\ d_reads' = <<>>
    /\ d_out' = <<>>
    /\ d_ret' = <<>>
    /\ d_pc' = "run"
    /\ UNCHANGED <<nCS, built, TX_buf, RX_buf, RAMP_MODE, d_theta, X_TARGET, X_ACTUAL>>

\* Every method of the class on one instance, set_velocity and test_version included.
AllCalls ==
    ApiCalls(1)
        \cup {Call("set_velocity", 1, "", v) : v \in VelocityInputs}
        \cup {Call("test_version", 1, "", 0)}

\* A method of the class is called.
DrCallApi ==
    /\ d_pc = "idle"
    /\ \E c \in AllCalls :
          /\ (c.op = "StepperDriver") = (~built[c.m])
          /\ d_call' = c
          /\ d_todo' = Program(c)
    /\ d_sent' = <<>>
    /\ d_reads' = <<>>
    /\ d_out' = <<>>
    /\ d_ret' = <<>>
    /\ d_pc' = "run"
    /\ UNCHANGED <<nCS, built, TX_buf, RX_buf, RAMP_MODE, d_theta, X_TARGET, X_ACTUAL>>

\* self.TX_buf[3] = value succeeds: the value is a byte, or the interpreter's
\* bytearray keeps the low eight bits of a larger one (MicroPython); the transfer
\* of the buffer follows.
DrStore ==
    /\ d_pc = "run"
    /\ d_todo # <<>>
    /\ Head(d_todo).k = "store"
    /\ LET d == Head(d_todo).d
       IN  d_todo' = <<Xfer(<<d[1], d[2], d[3], d[4] % 256>>)>> \o Tail(d_todo)
    /\ UNCHANGED <<nCS, built, TX_buf, RX_buf, RAMP_MODE, d_pc, d_call, d_sent, d_reads,
                   d_ret, d_out, d_theta, X_TARGET, X_ACTUAL>>

\* self.TX_buf[3] = value with a value outside 0..255 raises ValueError (CPython's
\* bytearray): bytes 0..2 are assigned, nothing is transferred, the method ends.
DrValueError ==
    /\ d_pc = "run"
    /\ d_todo # <<>>
    /\ Head(d_todo).k = "store"
    /\ Head(d_todo).d[4] \notin 0..255
    /\ LET d == Head(d_todo).d
       IN  TX_buf' = [TX_buf EXCEPT ![d_call.m] = <<d[1], d[2], d[3], TX_buf[d_call.m][4]>>]
    /\ d_pc' = "ValueError"
    /\ UNCHANGED <<nCS, built, RX_buf, RAMP_MODE, d_call, d_todo, d_sent, d_reads,
                   d_ret, d_out, d_theta, X_TARGET, X_ACTUAL>>

\* print(...).
DrPrint ==
    /\ d_pc = "run"
    /\ d_todo # <<>>
    /\ Head(d_todo).k = "print"
    /\ d_out' = Append(d_out, Head(d_todo).s)
    /\ d_todo' = Tail(d_todo)
    /\ UNCHANGED <<nCS, built, TX_buf, RX_buf, RAMP_MODE, d_pc, d_call, d_sent, d_reads,
                   d_ret, d_theta, X_TARGET, X_ACTUAL>>

\* (the variant pulls the select lines of both chips low)
DrSelectBoth ==
    /\ d_pc = "run"
    /\ d_todo # <<>>
    /\ Head(d_todo).k = "xfer"
    /\ TX_buf' = [TX_buf EXCEPT ![d_call.m] = Head(d_todo).d]
    /\ nCS' = [m \in Motors |-> 0]
    /\ d_pc' = "low"
    /\ UNCHANGED <<built, RX_buf, RAMP_MODE, d_call, d_todo, d_sent, d_reads, d_ret,
                   d_out, d_theta, X_TARGET, X_ACTUAL>>

\* TX_buf[0..3] = ...; self.nCS.low().
DrSelect ==
    /\ d_pc = "run"
    /\ d_todo # <<>>
    /\ Head(d_todo).k = "xfer"
    /\ TX_buf' = [TX_buf EXCEPT ![d_call.m] = Head(d_todo).d]
    /\ nCS' = [nCS EXCEPT ![d_call.m] = 0]
    /\ d_pc' = "low"
    /\ UNCHANGED <<built, RX_buf, RAMP_MODE, d_call, d_todo, d_sent, d_reads, d_ret,
                   d_out, d_theta, X_TARGET, X_ACTUAL>>

\* What the chip of motor m shifts out for the datagram tx: the register read, under a
\* status byte; the reply to a write, and the status byte, are never looked at.
ChipReply(m, tx) ==
    IF tx[1] = X_TARGET_ADDR * 2 + 1
    THEN <<0, Byte(X_TARGET[m], 2), Byte(X_TARGET[m], 1), Byte(X_TARGET[m], 0)>>
    ELSE IF tx[1] = X_ACTUAL_ADDR * 2 + 1
    THEN <<0, Byte(X_ACTUAL[m], 2), Byte(X_ACTUAL[m], 1), Byte(X_ACTUAL[m], 0)>>
    ELSE <<0, 0, 0, 0>>

\* self.spi.send_recv(self.TX_buf, self.RX_buf): the four bytes go to every chip whose
\* select pin is low, which stores the payload of a write unchanged, and the reply
\* fills RX_buf.
DrTransfer ==
    /\ d_pc = "low"
    /\ LET i == d_call.m
           tx == TX_buf[i]
       IN /\ RX_buf' = [RX_buf EXCEPT ![i] = ChipReply(i, tx)]
          /\ d_sent' = Append(d_sent, tx)
          /\ X_TARGET' = [m \in Motors |->
                IF nCS[m] = 0 /\ tx[1] = X_TARGET_ADDR * 2
                THEN Decode(tx) ELSE X_TARGET[m]]
          /\ X_ACTUAL' = [m \in Motors |->
                IF nCS[m] = 0 /\ tx[1] = X_ACTUAL_ADDR * 2
                THEN Decode(tx) ELSE X_ACTUAL[m]]
          /\ RAMP_MODE' = [m \in Motors |->
                IF nCS[m] = 0 /\ tx[1] = RAMP_MODE_ADDR * 2
                THEN tx[4] % 4 ELSE RAMP_MODE[m]]
    /\ d_pc' = "sent"
    /\ UNCHANGED <<nCS, built, TX_buf, d_call, d_todo, d_reads, d_ret, d_out, d_theta>>

\* (the variant leaves the select pin low)
DrReleaseNoRaise ==
    /\ d_pc = "sent"
    /\ d_reads' = IF TX_buf[d_call.m][1] % 2 = 1
                  THEN Append(d_reads, Decode(RX_buf[d_call.m]))
                  ELSE d_reads
    /\ d_todo' = Tail(d_todo)
    /\ d_pc' = "run"
    /\ UNCHANGED <<nCS, built, TX_buf, RX_buf, RAMP_MODE, d_call, d_sent, d_ret, d_out,
                   d_theta, X_TARGET, X_ACTUAL>>

\* self.nCS.high(), and after a read the decoding of RX_buf.
DrRelease ==
    /\ d_pc = "sent"
    /\ nCS' = [nCS EXCEPT ![d_call.m] = 1]
    /\ d_reads' = IF TX_buf[d_call.m][1] % 2 = 1
                  THEN Append(d_reads, Decode(RX_buf[d_call.m]))
                  ELSE d_reads
    /\ d_todo' = Tail(d_todo)
    /\ d_pc' = "run"
    /\ UNCHANGED <<built, TX_buf, RX_buf, RAMP_MODE, d_call, d_sent, d_ret, d_out,
                   d_theta, X_TARGET, X_ACTUAL>>

\* The method returns.
DrReturn ==
    /\ d_pc = "run"
    /\ d_todo = <<>>
    /\ d_ret' = Result(d_call, d_reads)
    /\ built' = [built EXCEPT ![d_call.m] = TRUE]
    /\ d_theta' = IF d_call.op = "set_target_pos"
                  THEN (d_call.m :> d_call.arg) @@ d_theta
                  ELSE d_theta
    /\ d_pc' = "idle"
    /\ UNCHANGED <<nCS, TX_buf, RX_buf, RAMP_MODE, d_call, d_todo, d_sent, d_reads,
                   d_out, X_TARGET, X_ACTUAL>>

\* The chip of motor m, in ramp mode, has driven the motor to the target position.
ChipMove(m) ==
    /\ RAMP_MODE[m] = 0
    /\ MotorMove(m)
    /\ UNCHANGED drVars

(***************************************************************************)
(* HPGL parser (main.py 99-132). Text is a sequence of one-character       *)
(* strings, and the parser works on the text: the file is split at ';',    *)
(* each command is searched for "PU" and "PD" and for ',', stripped of the *)
(* mnemonic's letters, split at ',' and its fields are read by int().      *)
(***************************************************************************)
\* The commands the files are made of: a two-letter mnemonic followed by integer
\* arguments separated by commas: none, one, one pair, a pair and a half, two pairs.
Mnemonics == {<<"P", "U">>, <<"P", "D">>, <<"P", "A">>, <<"S", "P">>, <<"I", "N">>}

ArgLists == {<<>>, <<7>>, <<5, 0 - 12>>, <<5, 0 - 12, 7>>, <<30, 0, 0 - 12, 104>>}

HpglCommands == [mn : Mnemonics, args : ArgLists]

HpglFiles == UNION {[1..n -> HpglCommands] : n \in 0..MaxCommands}

DigitChars == <<"0", "1", "2", "3", "4", "5", "6", "7", "8", "9">>

\* The decimal text of an integer.
RECURSIVE Digits(_)
Digits(n) ==
    IF n < 0 THEN <<"-">> \o Digits(0 - n)
    ELSE IF n < 10 THEN <<DigitChars[n + 1]>>
    ELSE Digits(n \div 10) \o <<DigitChars[(n % 10) + 1]>>

\* The arguments of a command as text, separated by commas.
RECURSIVE ArgText(_)
ArgText(args) ==
    IF args = <<>> THEN <<>>
    ELSE IF Len(args) = 1 THEN Digits(args[1])
    ELSE Digits(args[1]) \o <<",">> \o ArgText(Tail(args))

\* The line of the file: every command followed by ';'.
RECURSIVE FileText(_)
FileText(cs) ==
    IF cs = <<>> THEN <<>>
    ELSE Head(cs).mn \o ArgText(Head(cs).args) \o <<";">> \o FileText(Tail(cs))

\* pat in text.
Contains(text, pat) ==
    \E i \in 1..(Len(text) - Len(pat) + 1) : SubSeq(text, i, i + Len(pat) - 1) = pat

\* text.split(sep), sep one character.
RECURSIVE Split(_, _)
Split(text, sep) ==
    IF \E i \in 1..Len(text) : text[i] = sep
    THEN LET i == CHOOSE i \in 1..Len(text) :
                      text[i] = sep /\ \A j \in 1..(i - 1) : text[j] # sep
         IN <<SubSeq(text, 1, i - 1)>> \o Split(SubSeq(text, i + 1, Len(text)), sep)
    ELSE <<text>>

\* text.strip(chars): the leading and the trailing characters that are in chars go.
RECURSIVE Strip(_, _)
Strip(text, chars) ==
    IF text = <<>> THEN text
    ELSE IF text[1] \in chars THEN Strip(Tail(text), chars)
    ELSE IF text[Len(text)] \in chars THEN Strip(SubSeq(text, 1, Len(text) - 1), chars)
    ELSE text

\* The value of a text of digits.
RECURSIVE NatOf(_)
NatOf(text) ==
    IF text = <<>> THEN 0
    ELSE NatOf(SubSeq(text, 1, Len(text) - 1)) * 10
            + ((CHOOSE d \in 1..10 : DigitChars[d] = text[Len(text)]) - 1)

\* (the variant drops the sign)
IntOfUnsigned(text) ==
    IF text[1] = "-" THEN NatOf(Tail(text)) ELSE NatOf(text)

\* int(text) for a text of digits under an optional sign, which every field of the
\* commands above is. (On any other text int() raises ValueError.)
IntOf(text) ==
    IF text[1] = "-" THEN 0 - NatOf(Tail(text)) ELSE NatOf(text)

\* The tuples the loop over coords appends (main.py 110-118): the fields are read in
\* turn as x and as y, and a tuple is appended after each y.
RECURSIVE Tuples(_, _)
Tuples(kind, coords) ==
    IF Len(coords) < 2 THEN <<>>
    ELSE <<[kind |-> kind, x |-> IntOf(coords[1]), y |-> IntOf(coords[2])]>>
            \o Tuples(kind, SubSeq(coords, 3, Len(coords)))

\* The command the loop is at.
Command == command_list[cmd_i]

\* "PU" in command and ',' in command.
ParsePU ==
    /\ ps_pc = "loop"
    /\ cmd_i <= Len(command_list)
    /\ Contains(Command, <<"P", "U">>)
    /\ Contains(Command, <<",">>)
    /\ STEPS' = STEPS \o Tuples("PU", Split(Strip(Command, {"P", "U"}), ","))
    /\ cmd_i' = cmd_i + 1
    /\ UNCHANGED <<hpgl, command_list, ps_pc, idx, interp, elements, rs_pc>>

\* "PD" in command, "PU" not, and ',' in command.
ParsePD ==
    /\ ps_pc = "loop"
    /\ cmd_i <= Len(command_list)
    /\ ~Contains(Command, <<"P", "U">>)
    /\ Contains(Command, <<"P", "D">>)
    /\ Contains(Command, <<",">>)
    /\ STEPS' = STEPS \o Tuples("PD", Split(Strip(Command, {"P", "D"}), ","))
    /\ cmd_i' = cmd_i + 1
    /\ UNCHANGED <<hpgl, command_list, ps_pc, idx, interp, elements, rs_pc>>

\* Neither "PU" nor "PD" in command, or no ',' in it: nothing is appended.
ParseSkip ==
    /\ ps_pc = "loop"
    /\ cmd_i <= Len(command_list)
    /\ \/ ~Contains(Command, <<"P", "U">>) /\ ~Contains(Command, <<"P", "D">>)
       \/ ~Contains(Command, <<",">>)
    /\ cmd_i' = cmd_i + 1
    /\ UNCHANGED <<hpgl, command_list, ps_pc, STEPS, idx, interp, elements, rs_pc>>

\* The loop is over (main.py 134).
ParseEnd ==
    /\ ps_pc = "loop"
    /\ cmd_i > Len(command_list)
    /\ ps_pc' = "parsed"
    /\ UNCHANGED <<hpgl, command_list, cmd_i, STEPS, idx, interp, elements, rs_pc>>

(***************************************************************************)
(* Kinematics solver (main.py 34-77) and the Newton-Raphson stage of       *)
(* startup() (main.py 226-286).                                            *)
(* Angles are taken on a lattice: theta1 in units of pi/2, so that the arm *)
(* angle theta1/3 is a multiple of 30 degrees, and theta2 in units of      *)
(* pi/4, so that the radius (4/pi)*theta2 is an integer. A coordinate is a *)
(* pair <<p, q>> standing for the number (p + q*sqrt(3))/2: these are the  *)
(* values the position function takes on the lattice.                      *)
(***************************************************************************)
\* 2*pi in the unit of theta1.
TwoPi == 4

\* guess = (3*pi/2, 110*2*pi/8) (main.py 239-240).
guess == <<3, 110>>

\* xSCALE = ySCALE = 1/40, xOFFSET = -70, yOFFSET = -500 (main.py 226-229).
xSCALE_inv == 40
xOFFSET == 0 - 70
ySCALE_inv == 40
yOFFSET == 0 - 500

\* cos and sin of k*30 degrees as pairs: cos(0) = <<2, 0>>, cos(30) = sqrt(3)/2 = <<0, 1>>,
\* cos(60) = 1/2 = <<1, 0>>; math.cos(theta[0][0]/3) for theta1 = k*pi/2.
cos30(k) ==
    CASE k % 12 = 0 -> <<2, 0>>
      [] k % 12 \in {1, 11} -> <<0, 1>>
      [] k % 12 \in {2, 10} -> <<1, 0>>
      [] k % 12 \in {3, 9} -> <<0, 0>>
      [] k % 12 \in {4, 8} -> <<0 - 1, 0>>
      [] k % 12 \in {5, 7} -> <<0, 0 - 1>>
      [] k % 12 = 6 -> <<0 - 2, 0>>

sin30(k) == cos30(k + 9)

Times(n, c) == <<n * c[1], n * c[2]>>

Minus(c, d) == <<c[1] - d[1], c[2] - d[2]>>

\* f of g(x, theta): ((4/pi)*theta2*cos(theta1/3), (4/pi)*theta2*sin(theta1/3)).
x_model(ang) == <<Times(ang[2], cos30(ang[1])), Times(ang[2], sin30(ang[1]))>>

\* g(x, theta) = x - f (main.py 34-43).
g(x, ang) == <<Minus(x[1], x_model(ang)[1]), Minus(x[2], x_model(ang)[2])>>

\* abs(v) <= thresh for thresh = 1e-3 (main.py 71, 271): |p + q*sqrt(3)| <= 2/1000,
\* decided with 1.73205 < sqrt(3) < 1.73206, everything times 100000.
Lo(v) == 100000 * v[1] + (IF v[2] >= 0 THEN 173205 ELSE 173206) * v[2]

Hi(v) == 100000 * v[1] + (IF v[2] >= 0 THEN 173206 ELSE 173205) * v[2]

SmallEither(r) ==
    \/ (Lo(r[1]) >= 0 - 200 /\ Hi(r[1]) <= 200)
    \/ (Lo(r[2]) >= 0 - 200 /\ Hi(r[2]) <= 200)

\* abs(g[0][0]) <= thresh and abs(g[1][0]) <= thresh (main.py 71).
Small(r) ==
    /\ (Lo(r[1]) >= 0 - 200 /\ Hi(r[1]) <= 200)
    /\ (Lo(r[2]) >= 0 - 200 /\ Hi(r[2]) <= 200)

\* The Jacobian dg_dtheta(theta) (main.py 46-53) has determinant
\* -(4/(3*pi)) * (4/pi)*theta2: np.linalg.inv raises exactly when theta2 is 0.
Singular(ang) == ang[2] = 0

\* The lattice of angles the iterates are taken from.
Radii == {100, 110}

Lattice == ((0 - MaxTheta1)..MaxTheta1) \X ({0} \cup Radii \cup {0 - r : r \in Radii})

\* The lines of Interpolated.txt: waypoints at arm angles of 90 and 150 degrees and
\* radius 110 after scaling, written in the file's own units (x = (xS - xOFFSET)/xSCALE).
WaypointDirs == {3, 5}

Unscaled(c, inv, off) == <<inv * (c[1] - 2 * off), inv * c[2]>>

Waypoint(kind, k, r) ==
    [kind |-> kind,
     x |-> Unscaled(Times(r, cos30(k)), xSCALE_inv, xOFFSET),
     y |-> Unscaled(Times(r, sin30(k)), ySCALE_inv, yOFFSET)]

WaypointRadii == {110}

Waypoints ==
    {Waypoint(kind, k, r) : kind \in {"PU", "PD"}, k \in WaypointDirs, r \in WaypointRadii}

WaypointFiles == UNION {[1..n -> Waypoints] : n \in 0..MaxWaypoints}

\* xS = xSCALE*x + xOFFSET (main.py 250-251), on pairs: an offset o is the pair <<2*o, 0>>.
Scaled(c, inv, off) == <<(c[1] \div inv) + 2 * off, c[2] \div inv>>

theta_guess_fixed == guess

\* theta_guess of the iteration (main.py 261-268).
theta_guess == IF nr_i = 0 THEN guess ELSE <<th1, th2>>

\* One iteration of the loop up to the call of NewtonRaphson (main.py 241-271, 66-67):
\* read a line, scale it, choose the guess, theta_n = guess.
SolveRead ==
    /\ nr_pc = "loop"
    /\ nr_i < elements
    /\ LET line == interp[nr_i + 1]
       IN  x_des' = <<Scaled(line.x, xSCALE_inv, xOFFSET), Scaled(line.y, ySCALE_inv, yOFFSET)>>
    /\ theta_n' = theta_guess
    /\ guesses' = Append(guesses, theta_guess)
    /\ nr_pc' = "solve"
    /\ UNCHANGED <<nr_i, nr_theta, th1, th2, send, nr_ret>>

\* The else branch of the loop of NewtonRaphson (main.py 73-75) with an invertible
\* Jacobian: theta_n - inv(J).g is a real-valued step, any point of the lattice here.
NRStep ==
    /\ nr_pc = "solve"
    /\ ~Small(g(x_des, theta_n))
    /\ ~Singular(theta_n)
    /\ theta_n' \in Lattice
    /\ UNCHANGED <<nr_pc, nr_i, x_des, nr_theta, th1, th2, send, nr_ret, guesses>>

\* The same branch with a singular Jacobian: np.linalg.inv raises, startup() ends.
NRSingular ==
    /\ nr_pc = "solve"
    /\ ~Small(g(x_des, theta_n))
    /\ Singular(theta_n)
    /\ nr_pc' = "ValueError"
    /\ UNCHANGED <<nr_i, x_des, theta_n, nr_theta, th1, th2, send, nr_ret, guesses>>

\* The loop of NewtonRaphson ends (main.py 71-72, 77) and the iteration of startup()
\* goes on (main.py 272-281): th1 = theta1 % 2*pi, th2 = theta2, th = th1/3 (in units
\* of pi/6 the same number as th1), the line written to Send.txt, i += 1.
NRReturn ==
    /\ nr_pc = "solve"
    /\ Small(g(x_des, theta_n))
    /\ nr_theta' = theta_n
    /\ th1' = theta_n[1] % TwoPi
    /\ th2' = theta_n[2]
    /\ send' = Append(send, [loc |-> interp[nr_i + 1].kind, th1 |-> th1', th2 |-> th2',
                             xS |-> x_des[1], yS |-> x_des[2], th |-> th1'])
    /\ nr_i' = nr_i + 1
    /\ nr_pc' = "loop"
    /\ UNCHANGED <<x_des, theta_n, nr_ret, guesses>>

SolveEndEarly ==
    /\ nr_pc = "loop"
    /\ nr_i >= elements - 1
    /\ nr_pc' = "returned"
    /\ nr_ret' = elements
    /\ UNCHANGED <<nr_i, x_des, theta_n, nr_theta, th1, th2, send, guesses>>

\* The loop of startup() is over (main.py 241, 283-286): return elements.
SolveEnd ==
    /\ nr_pc = "loop"
    /\ nr_i >= elements
    /\ nr_pc' = "returned"
    /\ nr_ret' = elements
    /\ UNCHANGED <<nr_i, x_des, theta_n, nr_theta, th1, th2, send, guesses>>

(***************************************************************************)
(* Specifications: one per component, the other components at rest.        *)
(***************************************************************************)
RestResample ==
    /\ STEPS = <<>>
    /\ idx = 1
    /\ interp = <<>>
    /\ elements = 0
    /\ rs_pc = "closed"

RestTask ==
    /\ state = S2_DONE
    /\ step = 0
    /\ pen_is_up = TRUE
    /\ update = FALSE
    /\ printed = TRUE
    /\ pen_CMD = "unbound"
    /\ m1_CMD = 0
    /\ m2_CMD = 0
    /\ num = 0
    /\ sendFile = <<>>
    /\ sendPos = 0
    /\ sendOpen = "closed"
    /\ penPos = "up"
    /\ X_TARGET = [m \in Motors |-> 0]
    /\ X_ACTUAL = [m \in Motors |-> 0]
    /\ tk = 0
    /\ acts = <<>>
    /\ history = <<>>

RestAccel ==
    /\ max_accel = 0
    /\ spi = <<>>
    /\ ac_pc = "returned"

\* The select pins created high (main.py 438, 443), no driver constructed, the chips
\* as they come out of reset.
RestDriver ==
    /\ nCS = [m \in Motors |-> 1]
    /\ built = [m \in Motors |-> FALSE]
    /\ TX_buf = [m \in Motors |-> <<0, 0, 0, 0>>]
    /\ RX_buf = [m \in Motors |-> <<0, 0, 0, 0>>]
    /\ RAMP_MODE = [m \in Motors |-> 0]
    /\ d_pc = "idle"
    /\ d_call = Call("none", 0, "", 0)
    /\ d_todo = <<>>
    /\ d_sent = <<>>
    /\ d_reads = <<>>
    /\ d_ret = <<>>
    /\ d_out = <<>>
    /\ d_theta = <<>>

RestParse ==
    /\ hpgl = <<>>
    /\ command_list = <<>>
    /\ cmd_i = 1
    /\ ps_pc = "parsed"

RestSolve ==
    /\ nr_pc = "idle"
    /\ nr_i = 0
    /\ x_des = <<>>
    /\ theta_n = <<>>
    /\ nr_theta = <<>>
    /\ th1 = 0
    /\ th2 = 0
    /\ send = <<>>
    /\ nr_ret = <<>>
    /\ guesses = <<>>

\* startup() at the top of the resampling loop, STEPS parsed.
InitResample ==
    /\ STEPS \in StepLists
    /\ idx = 1
    /\ interp = <<>>
    /\ elements = 0
    /\ rs_pc = "loop"
    /\ RestTask
    /\ RestAccel
    /\ RestDriver
    /\ RestParse
    /\ RestSolve

NextResample ==
    \/ (ResamplePU /\ UNCHANGED <<tkVars, acVars, drVars, psVars, nrVars>>)
    \/ (ResamplePD /\ UNCHANGED <<tkVars, acVars, drVars, psVars, nrVars>>)
    \/ (ResamplePDLast /\ UNCHANGED <<tkVars, acVars, drVars, psVars, nrVars>>)
    \/ (ResampleClose /\ UNCHANGED <<tkVars, acVars, drVars, psVars, nrVars>>)

SpecResample == InitResample /\ [][NextResample]_vars

\* The task created (main.py 503): Send.txt written, both motors zeroed by set_zero,
\* the pen raised (main.py 486), the locals of task_main not yet assigned. The
\* target registers, never written before, hold what the chip holds: its reset value
\* or the position it stands at.
InitTask ==
    /\ sendFile \in SendFiles
    /\ num = Len(sendFile)
    /\ state = S0_INIT
    /\ step = 0 - 1
    /\ pen_is_up = TRUE
    /\ update = FALSE
    /\ printed = FALSE
    /\ pen_CMD = "unbound"
    /\ m1_CMD = 0
    /\ m2_CMD = 0
    /\ sendPos = 0
    /\ sendOpen = "unopened"
    /\ penPos = "up"
    /\ X_ACTUAL = (1 :> Zero1) @@ (2 :> Zero2)
    /\ X_TARGET \in {[m \in Motors |-> 0], (1 :> Zero1) @@ (2 :> Zero2)}
    /\ tk = 0
    /\ acts = <<>>
    /\ history = <<>>
    /\ RestResample
    /\ RestAccel
    /\ RestDriver
    /\ RestParse
    /\ RestSolve

NextTask ==
    \/ (TickInit /\ UNCHANGED <<rsVars, acVars, drVars, psVars, nrVars>>)
    \/ (TickUpWhileDown /\ UNCHANGED <<rsVars, acVars, drVars, psVars, nrVars>>)
    \/ (TickUpWhileUp /\ UNCHANGED <<rsVars, acVars, drVars, psVars, nrVars>>)
    \/ (TickDownWhileUp /\ UNCHANGED <<rsVars, acVars, drVars, psVars, nrVars>>)
    \/ (TickDownWhileDown /\ UNCHANGED <<rsVars, acVars, drVars, psVars, nrVars>>)
    \/ (TickFinish /\ UNCHANGED <<rsVars, acVars, drVars, psVars, nrVars>>)
    \/ (TickPlotIdle /\ UNCHANGED <<rsVars, acVars, drVars, psVars, nrVars>>)
    \/ (TickDonePrint /\ UNCHANGED <<rsVars, acVars, drVars, psVars, nrVars>>)
    \/ (TickDoneIdle /\ UNCHANGED <<rsVars, acVars, drVars, psVars, nrVars>>)
    \/ (\E m \in Motors : MotorMove(m) /\ UNCHANGED <<rsVars, acVars, drVars, psVars, nrVars>>)

SpecTask == InitTask /\ [][NextTask]_vars

\* A run of the task (main.py 288-375): one tick.
TaskTick ==
    \/ TickInit
    \/ TickUpWhileDown
    \/ TickUpWhileUp
    \/ TickDownWhileUp
    \/ TickDownWhileDown
    \/ TickFinish
    \/ TickPlotIdle
    \/ TickDonePrint
    \/ TickDoneIdle

\* The same machine with the scheduler running the task again and again (the loop of
\* main.py 508-512 around cotask's pri_sched) and each chip, in ramp mode, driving its
\* motor to the target position it holds.
SpecTaskFair ==
    /\ InitTask
    /\ [][NextTask]_vars
    /\ WF_vars(TaskTick /\ UNCHANGED <<rsVars, acVars, drVars, psVars, nrVars>>)
    /\ \A m \in Motors :
          WF_vars(MotorMove(m) /\ UNCHANGED <<rsVars, acVars, drVars, psVars, nrVars>>)

\* A driver about to run set_accel(max_accel).
InitAccel ==
    /\ max_accel \in AccelInputs
    /\ spi = <<>>
    /\ ac_pc = "call"
    /\ RestResample
    /\ RestTask
    /\ RestDriver
    /\ RestParse
    /\ RestSolve

NextAccel ==
    \/ (SetAccel /\ UNCHANGED <<rsVars, tkVars, drVars, psVars, nrVars>>)
    \/ (SetAccelZero /\ UNCHANGED <<rsVars, tkVars, drVars, psVars, nrVars>>)

SpecAccel == InitAccel /\ [][NextAccel]_vars

\* The two drivers about to be constructed (main.py 469-474) and then called.
InitDriver ==
    /\ RestDriver
    /\ RestResample
    /\ RestTask
    /\ RestAccel
    /\ RestParse
    /\ RestSolve

NextDriver ==
    \/ (DrCall /\ UNCHANGED <<rsVars, acVars, psVars, tkLocals, nrVars>>)
    \/ (DrPrint /\ UNCHANGED <<rsVars, acVars, psVars, tkLocals, nrVars>>)
    \/ (DrSelect /\ UNCHANGED <<rsVars, acVars, psVars, tkLocals, nrVars>>)
    \/ (DrTransfer /\ UNCHANGED <<rsVars, acVars, psVars, tkLocals, nrVars>>)
    \/ (DrRelease /\ UNCHANGED <<rsVars, acVars, psVars, tkLocals, nrVars>>)
    \/ (DrReturn /\ UNCHANGED <<rsVars, acVars, psVars, tkLocals, nrVars>>)
    \/ (\E m \in Motors : ChipMove(m) /\ UNCHANGED <<rsVars, acVars, psVars, nrVars>>)

SpecDriver == InitDriver /\ [][NextDriver]_vars

\* The two drivers as the program uses them: constructed and zeroed by __main__
\* (main.py 469-478), then called by the state machine (main.py 335-362).
NextMain ==
    \/ (DrCallMain /\ UNCHANGED <<rsVars, acVars, psVars, tkLocals, nrVars>>)
    \/ (DrPrint /\ UNCHANGED <<rsVars, acVars, psVars, tkLocals, nrVars>>)
    \/ (DrSelect /\ UNCHANGED <<rsVars, acVars, psVars, tkLocals, nrVars>>)
    \/ (DrTransfer /\ UNCHANGED <<rsVars, acVars, psVars, tkLocals, nrVars>>)
    \/ (DrRelease /\ UNCHANGED <<rsVars, acVars, psVars, tkLocals, nrVars>>)
    \/ (DrReturn /\ UNCHANGED <<rsVars, acVars, psVars, tkLocals, nrVars>>)
    \/ (\E m \in Motors : ChipMove(m) /\ UNCHANGED <<rsVars, acVars, psVars, nrVars>>)

SpecMain == InitDriver /\ [][NextMain]_vars

\* One driver with every method of the class called in any order.
NextApi ==
    \/ (DrCallApi /\ UNCHANGED <<rsVars, acVars, psVars, tkLocals, nrVars>>)
    \/ (DrPrint /\ UNCHANGED <<rsVars, acVars, psVars, tkLocals, nrVars>>)
    \/ (DrStore /\ UNCHANGED <<rsVars, acVars, psVars, tkLocals, nrVars>>)
    \/ (DrValueError /\ UNCHANGED <<rsVars, acVars, psVars, tkLocals, nrVars>>)
    \/ (DrSelect /\ UNCHANGED <<rsVars, acVars, psVars, tkLocals, nrVars>>)
    \/ (DrTransfer /\ UNCHANGED <<rsVars, acVars, psVars, tkLocals, nrVars>>)
    \/ (DrRelease /\ UNCHANGED <<rsVars, acVars, psVars, tkLocals, nrVars>>)
    \/ (DrReturn /\ UNCHANGED <<rsVars, acVars, psVars, tkLocals, nrVars>>)
    \/ (\E m \in Motors : ChipMove(m) /\ UNCHANGED <<rsVars, acVars, psVars, nrVars>>)

SpecApi == InitDriver /\ [][NextApi]_vars

\* startup() after command_list.split(';') (main.py 101), STEPS empty.
InitParse ==
    /\ hpgl \in HpglFiles
    /\ command_list = Split(FileText(hpgl), ";")
    /\ cmd_i = 1
    /\ ps_pc = "loop"
    /\ RestResample
    /\ RestTask
    /\ RestAccel
    /\ RestDriver
    /\ RestSolve

NextParse ==
    \/ (ParsePU /\ UNCHANGED <<tkVars, acVars, drVars, nrVars>>)
    \/ (ParsePD /\ UNCHANGED <<tkVars, acVars, drVars, nrVars>>)
    \/ (ParseSkip /\ UNCHANGED <<tkVars, acVars, drVars, nrVars>>)
    \/ (ParseEnd /\ UNCHANGED <<tkVars, acVars, drVars, nrVars>>)

SpecParse == InitParse /\ [][NextParse]_vars

\* startup() after the resampling stage (main.py 214-240): Interpolated.txt closed with
\* elements lines, Send.txt opened empty, i = 0, th1 and th2 not yet bound.
InitSolve ==
    /\ interp \in WaypointFiles
    /\ elements = Len(interp)
    /\ STEPS = <<>>
    /\ idx = 1
    /\ rs_pc = "closed"
    /\ nr_pc = "loop"
    /\ nr_i = 0
    /\ x_des = <<>>
    /\ theta_n = <<>>
    /\ nr_theta = <<>>
    /\ th1 = 0
    /\ th2 = 0
    /\ send = <<>>
    /\ nr_ret = <<>>
    /\ guesses = <<>>
    /\ RestTask
    /\ RestAccel
    /\ RestDriver
    /\ RestParse

NextSolve ==
    \/ (SolveRead /\ UNCHANGED <<rsVars, tkVars, acVars, drVars, psVars>>)
    \/ (NRStep /\ UNCHANGED <<rsVars, tkVars, acVars, drVars, psVars>>)
    \/ (NRSingular /\ UNCHANGED <<rsVars, tkVars, acVars, drVars, psVars>>)
    \/ (NRReturn /\ UNCHANGED <<rsVars, tkVars, acVars, drVars, psVars>>)
    \/ (SolveEnd /\ UNCHANGED <<rsVars, tkVars, acVars, drVars, psVars>>)

SpecSolve == InitSolve /\ [][NextSolve]_vars

(***************************************************************************)
(* Claims about the resampler.                                             *)
(***************************************************************************)
\* Squared distance of two waypoints, in waypoint-file units.
WpDistSq(p, q) == (q.x - p.x) * (q.x - p.x) + (q.y - p.y) * (q.y - p.y)

\* The pen kinds of a sequence of commands or waypoints.
Kinds(s) == [k \in 1..Len(s) |-> s[k].kind]

\* A sequence of kinds with consecutive equal kinds collapsed.
RECURSIVE Collapse(_)
Collapse(ks) ==
    IF Len(ks) <= 1 THEN ks
    ELSE IF ks[1] = ks[2] THEN Collapse(Tail(ks))
         ELSE <<ks[1]>> \o Collapse(Tail(ks))

\* The maximal runs of consecutive 'PD' commands of the input all have at least
\* two points (the exception of the distance bound never applies).
NoShortRun ==
    \A i \in 1..Len(STEPS) :
        STEPS[i].kind = "PD" =>
            \/ (i > 1 /\ STEPS[i - 1].kind = "PD")
            \/ (i < Len(STEPS) /\ STEPS[i + 1].kind = "PD")

\* C1: every pair of consecutive waypoints whose second element is PenDown is at
\* most max_dist apart, however long the source segment was (inputs whose PenDown
\* runs all have two points or more).
C1_SegmentsBounded ==
    NoShortRun =>
        \A k \in 1..(Len(interp) - 1) :
            interp[k + 1].kind = "PD" =>
                WpDistSq(interp[k], interp[k + 1])
                    <= (Scale * max_dist) * (Scale * max_dist)

\* C2: resampling introduces no pen-state change: with consecutive equal kinds
\* collapsed, the waypoint file has the pen kinds of the RawCommand input.
C2_NoPenChangeIntroduced ==
    rs_pc = "closed" => Collapse(Kinds(interp)) = Collapse(Kinds(STEPS))

(***************************************************************************)
(* Claims about the coordination state machine.                            *)
(***************************************************************************)
HomeTargets == (1 :> Home1) @@ (2 :> Home2)

\* The tick wrote the command's targets to both motors, then read both motors as
\* arrived, then advanced to step index s.
WroteThenArrived(as, t1, t2, s) ==
    \E i \in 1..(Len(as) - 4) :
        /\ as[i] = Ev("target", 1, t1)
        /\ as[i + 1] = Ev("target", 2, t2)
        /\ as[i + 2] = Ev("arrived", 1, 1)
        /\ as[i + 3] = Ev("arrived", 2, 1)
        /\ as[i + 4] = Ev("advance", 0, s)
        /\ i + 4 = Len(as)

\* C3: in Plotting the step index is incremented, and the fetch-next flag set, only
\* in a tick that wrote the current command's targets to both motors and then found
\* both motors arrived (each motor stands at its target).
C3_AdvanceOnlyOnArrival ==
    [][(state = S1_PLOT /\ (step' # step \/ (update' /\ ~update))) =>
          /\ step' = step + 1
          /\ update'
          /\ X_TARGET' = (1 :> m1_CMD') @@ (2 :> m2_CMD')
          /\ X_ACTUAL = X_TARGET'
          /\ WroteThenArrived(acts', m1_CMD', m2_CMD', step')]_vars

\* A tick of the 'PU' while down branch has advanced, after an earlier advance.
C3_Witness ==
    /\ state = S1_PLOT
    /\ step = 2
    /\ \E i \in 1..Len(acts) : acts[i].op = "pen_up"
    /\ \E i \in 1..Len(acts) : acts[i].op = "advance"

\* The operations of history before the tick that finishes (its "All done!" print).
PlotOps ==
    LET n == CHOOSE k \in 1..Len(history) :
                 /\ history[k] = Ev("print", 0, 0)
                 /\ \A j \in 1..(k - 1) : history[j] # Ev("print", 0, 0)
    IN [k \in 1..(n - 1) |-> history[k].op]

\* C4: for the two-command stream [PenDown, PenUp] the machine engages the pen for the
\* first command, fetches the second, disengages the pen for it, and only then
\* finishes.
C4_TwoCommandScenario ==
    (/\ state = S2_DONE
     /\ Len(sendFile) = 2
     /\ sendFile[1].pen = "PD"
     /\ sendFile[2].pen = "PU")
        => PlotOps = <<"readline", "pen_down", "readline", "pen_up">>

C6_StateTransitions ==
    [][/\ (state = S0_INIT /\ tk' # tk) => state' = S1_PLOT
       /\ state = S0_INIT => state' \in {S0_INIT, S1_PLOT}
       /\ state = S1_PLOT => state' \in {S1_PLOT, S2_DONE}
       /\ state = S2_DONE => state' = S2_DONE]_vars

\* Done was reached through Plotting ticks that advanced, and a tick ran in Done.
C6_Witness ==
    /\ state = S2_DONE
    /\ step = 2
    /\ printed = TRUE

\* C7: after the Init tick the step index is 0, the pen flag is up, the fetch-next
\* flag is set and the state is Plotting.
C7_InitTick ==
    [][(state = S0_INIT /\ tk' # tk) =>
          /\ step' = 0
          /\ pen_is_up' = TRUE
          /\ update' = TRUE
          /\ state' = S1_PLOT]_vars

\* C8: the tick from Plotting to Done disengages the pen, then writes the home
\* targets to both motors, then closes the stream; in Done no target is written, so
\* each motor's target stays the home position.
C8_HomeIsLastTarget ==
    /\ [][(state = S1_PLOT /\ state' = S2_DONE) =>
             /\ acts' = <<Ev("print", 0, 0), Ev("pen_up", 0, 0), Ev("target", 1, Home1),
                          Ev("target", 2, Home2), Ev("close", 0, 0)>>
             /\ penPos' = "up"
             /\ X_TARGET' = HomeTargets
             /\ sendOpen' = "closed"]_vars
    /\ [][state = S2_DONE =>
             /\ X_TARGET' = X_TARGET
             /\ tk' # tk => \A i \in 1..Len(acts') : acts'[i].op # "target"]_vars
    /\ [](state = S2_DONE => X_TARGET = HomeTargets)

\* Done for a Send.txt of four commands, ticks have run in Done and both motors
\* have reached the home position.
C8_Witness ==
    /\ state = S2_DONE
    /\ num = 4
    /\ printed = TRUE
    /\ X_ACTUAL = HomeTargets

(***************************************************************************)
(* Claims about set_accel.                                                 *)
(***************************************************************************)
\* 0.95 < (pmul/ma) * 2^(4-pdiv) < 1, as 19/20 < 16*pmul / (ma * 2^pdiv) < 1.
Inequality(ma, pmul, pdiv) ==
    /\ ma > 0
    /\ 19 * (ma * 2^pdiv) < 20 * (16 * pmul)
    /\ 16 * pmul < ma * 2^pdiv

Pairs == (128..255) \X (0..13)

HasValidPair(ma) == \E p \in Pairs : Inequality(ma, p[1], p[2])

\* The first valid pair, pmul ascending and, for each pmul, pdiv ascending.
FirstValidPair(ma) ==
    CHOOSE p \in Pairs :
        /\ Inequality(ma, p[1], p[2])
        /\ \A q \in Pairs :
              Inequality(ma, q[1], q[2]) =>
                  (p[1] < q[1] \/ (p[1] = q[1] /\ p[2] <= q[2]))

\* The datagrams sent that write the PMUL_PDIV register.
PmulPdivWrites == SelectSeq(spi, LAMBDA d : d[1] = PMUL_PDIV * 2)

\* C9: when some pair satisfies the inequality, set_accel writes to PMUL_PDIV a pair
\* that satisfies it: the first one, pmul ascending and pdiv ascending within.
C9_FirstValidPairWritten ==
    (ac_pc = "returned" /\ HasValidPair(max_accel)) =>
        /\ Len(PmulPdivWrites) = 1
        /\ spi[1] = PmulPdivWrites[1]
        /\ spi[1][2] = 0
        /\ Inequality(max_accel, spi[1][3], spi[1][4])
        /\ <<spi[1][3], spi[1][4]>> = FirstValidPair(max_accel)

\* set_accel(100), the call of the constructor, has written pmul = 191, pdiv = 5.
C9_Witness ==
    /\ ac_pc = "returned"
    /\ max_accel = 100
    /\ HasValidPair(max_accel)
    /\ spi[1] = <<18, 0, 191, 5>>

\* C10: when no pair satisfies the inequality, set_accel reports failure and writes
\* no pair to the chip.
C10_ExhaustionReported ==
    (ac_pc # "call" /\ ~HasValidPair(max_accel)) =>
        /\ ac_pc # "returned"
        /\ Len(PmulPdivWrites) = 0

(***************************************************************************)
(* Claims about the driver's transactions.                                 *)
(***************************************************************************)
\* get_target_pos() has just returned on the instance of motor m, whose target was
\* written by set_target_pos before.
ReadBack(m) ==
    /\ d_pc = "idle"
    /\ d_call.op = "get_target_pos"
    /\ d_call.m = m
    /\ m \in DOMAIN d_theta

\* C11: set_target_pos(theta) followed by get_target_pos() returns theta to within
\* one microstep, for every theta whose microstep count fits the 24-bit register,
\* negative ones included.
C11_TargetRoundTrip ==
    \A m \in Motors :
        ReadBack(m) => Abs(d_ret[1] * AngleDen - d_theta[m]) <= AngleDen

\* The method op has just returned on the instance of motor m.
Returned(op, m) ==
    /\ d_pc = "idle"
    /\ d_call.op = op
    /\ d_call.m = m

\* The step is the send_recv of a write to the register reg of motor m's chip.
WritesRegister(m, reg) ==
    /\ d_pc = "low"
    /\ d_pc' = "sent"
    /\ d_call.m = m
    /\ TX_buf[m][1] = reg * 2

\* C12: set_zero transfers a write of RAMP_MODE selecting hold, a write of X_ACTUAL
\* carrying the offset in microsteps, and a write of RAMP_MODE selecting ramp, in
\* that order and nothing else; X_ACTUAL is written only while the chip is in hold
\* mode; the chip is in ramp mode when set_zero returns.
C12_SetZeroOrder ==
    /\ [](\A m \in Motors :
            Returned("set_zero", m) =>
                /\ Len(d_sent) = 3
                /\ d_sent[1][1] = RAMP_MODE_ADDR * 2
                /\ d_sent[1][4] % 4 = 3
                /\ d_sent[2][1] = X_ACTUAL_ADDR * 2
                /\ Decode(d_sent[2]) = usteps(d_call.arg) % 16777216
                /\ d_sent[3][1] = RAMP_MODE_ADDR * 2
                /\ d_sent[3][4] % 4 = 0
                /\ RAMP_MODE[m] = 0)
    /\ [][\A m \in Motors : WritesRegister(m, X_ACTUAL_ADDR) => RAMP_MODE[m] = 3]_vars

\* set_zero has returned on the first instance after writing an offset of one
\* microstep, and the chip still stands at it.
C12_Witness ==
    /\ Returned("set_zero", 1)
    /\ d_call.arg = 6
    /\ d_sent[2] = <<2, 0, 0, 1>>
    /\ X_ACTUAL[1] = 1

\* The registers the datagrams ds address, in order.
Registers(ds) == [i \in 1..Len(ds) |-> ds[i][1] \div 2]

\* Every datagram of ds is a write: bit 0 of its first byte is 0.
AllWrites(ds) == \A i \in 1..Len(ds) : ds[i][1] % 2 = 0

\* C13: constructing a StepperDriver transfers writes of IF_CONF, V_MIN, V_MAX,
\* PULSE_RAMP_DIV, PMUL_PDIV, A_MAX and RAMP_MODE, in this order and nothing else,
\* and the chip is in ramp mode when the constructor returns.
C13_ConstructorOrder ==
    \A m \in Motors :
        Returned("StepperDriver", m) =>
            /\ Registers(d_sent) = <<IF_CONF, V_MIN, V_MAX, PULSE_RAMP_DIV,
                                     PMUL_PDIV, A_MAX, RAMP_MODE_ADDR>>
            /\ AllWrites(d_sent)
            /\ d_sent[7][4] % 4 = 0
            /\ RAMP_MODE[m] = 0

\* The constructor has returned on the first instance, reverse = False, with the
\* datagrams the real driver sends.
C13_Witness ==
    /\ Returned("StepperDriver", 1)
    /\ d_sent = <<<<104, 0, 0, 32>>, <<4, 0, 0, 20>>, <<6, 0, 1, 144>>,
                  <<24, 0, 153, 0>>, <<18, 0, 191, 5>>, <<12, 0, 0, 100>>,
                  <<20, 0, 4, 0>>>>

\* A sequence of four bytes.
FourBytes(buf) == Len(buf) = 4 /\ \A i \in 1..4 : buf[i] \in 0..255

\* C14: every SPI transfer of a driver instance happens while that instance's select
\* pin is low and moves exactly four bytes each way; the next thing the method does
\* is raise the pin; and a select pin is high whenever no transfer of its instance
\* is in progress.
C14_SelectFraming ==
    /\ [][Len(d_sent') = Len(d_sent) + 1 =>
            /\ nCS[d_call.m] = 0
            /\ d_sent' = Append(d_sent, TX_buf[d_call.m])
            /\ FourBytes(TX_buf[d_call.m])
            /\ FourBytes(RX_buf'[d_call.m])]_vars
    /\ [][d_pc = "sent" /\ drVars' # drVars => nCS'[d_call.m] = 1]_vars
    /\ [](\A m \in Motors :
            nCS[m] = 0 => d_pc \in {"low", "sent"} /\ d_call.m = m)

\* A datagram has gone to the second instance's chip: its select pin is low, the
\* other one high.
C14_Witness ==
    /\ d_pc = "sent"
    /\ d_call.m = 2
    /\ nCS = (1 :> 1) @@ (2 :> 0)
    /\ d_sent # <<>>

\* The step is the send_recv of a read of the register reg of motor m's chip.
ReadsRegister(m, reg) ==
    /\ d_pc = "low"
    /\ d_pc' = "sent"
    /\ d_call.m = m
    /\ TX_buf[m][1] = reg * 2 + 1

C15_WitnessNotArrived ==
    /\ Returned("arrived", 1)
    /\ d_call.arg = 0
    /\ d_reads = <<0, 16777215>>
    /\ d_ret = <<FALSE>>

(***************************************************************************)
(* Claims about the resampler's coverage of its input.                     *)
(***************************************************************************)
\* C16: for every non-empty RawCommand sequence, whether it ends in a PenUp or in a
\* PenDown command, the resampler runs to completion and the last waypoint it emits
\* is the last command, unchanged.
C16_LastCommandEmitted ==
    (STEPS # <<>> /\ rs_pc # "loop") =>
        /\ rs_pc = "closed"
        /\ interp # <<>>
        /\ interp[Len(interp)] = Unchanged(STEPS[Len(STEPS)])

\* The waypoint p lies strictly between the commands a and b, on the segment from a
\* to b: p - a is parallel to b - a and shorter, and p is not a.
Between(p, a, b) ==
    LET dx == (b.x - a.x) * Scale
        dy == (b.y - a.y) * Scale
        vx == p.x - a.x * Scale
        vy == p.y - a.y * Scale
    IN /\ dx * vy - dy * vx = 0
       /\ 0 < vx * dx + vy * dy
       /\ vx * dx + vy * dy < dx * dx + dy * dy

\* The waypoints from place k on are the commands from place i on, each with its own
\* kind and coordinates and each followed by fewer than N - 1 waypoints that lie
\* strictly between it and its successor.
RECURSIVE Covers(_, _)
Covers(i, k) ==
    IF i > Len(STEPS)
    THEN k = Len(interp) + 1
    ELSE /\ k <= Len(interp)
         /\ interp[k] = Unchanged(STEPS[i])
         /\ \E j \in 0..(N - 2) :
               /\ k + j <= Len(interp)
               /\ j > 0 => i < Len(STEPS)
               /\ \A h \in 1..j : Between(interp[k + h], STEPS[i], STEPS[i + 1])
               /\ Covers(i + 1, k + j + 1)

\* C17: once the resampler has run, every RawCommand is in its output with its own
\* kind and coordinates, in input order, and every other waypoint is a point strictly
\* between a command and its immediate successor (so the successor's point is
\* emitted once, by the successor).
C17_InputIsSubsequence ==
    rs_pc # "loop" => Covers(1, 1)

(***************************************************************************)
(* Claims about the parser.                                                *)
(***************************************************************************)
\* The coordinate pairs of an argument list, in order.
CoordPairs(kind, args) ==
    [j \in 1..(Len(args) \div 2) |->
        [kind |-> kind, x |-> args[2 * j - 1], y |-> args[2 * j]]]

\* The RawCommands the commands cs stand for: for a PU or PD command its coordinate
\* pairs, under its kind; for any other command none.
RECURSIVE Expected(_)
Expected(cs) ==
    IF cs = <<>> THEN <<>>
    ELSE (IF Head(cs).mn = <<"P", "U">> THEN CoordPairs("PU", Head(cs).args)
          ELSE IF Head(cs).mn = <<"P", "D">> THEN CoordPairs("PD", Head(cs).args)
          ELSE <<>>) \o Expected(Tail(cs))

\* C18: parsing the semicolon-delimited command stream yields, for each PU or PD
\* command with k coordinate pairs, exactly k RawCommands of that kind, in order, and
\* no RawCommand for any other command, a PU or PD without coordinates included.
C18_ParseYieldsPairs ==
    ps_pc = "parsed" => STEPS = Expected(hpgl)

\* "PD30,0,-12,104;PU;" has been parsed into the two PenDown commands.
C18_Witness ==
    /\ ps_pc = "parsed"
    /\ command_list = <<<<"P", "D", "3", "0", ",", "0", ",", "-", "1", "2", ",",
                           "1", "0", "4">>, <<"P", "U">>, <<>>>>
    /\ STEPS = <<[kind |-> "PD", x |-> 30, y |-> 0],
                 [kind |-> "PD", x |-> 0 - 12, y |-> 104]>>

(***************************************************************************)
(* Claims about the driver's modes.                                        *)
(***************************************************************************)
\* The names set_mode knows.
KnownModes == {"ramp", "hold", "velocity", "soft"}

\* set_mode is running, or has just returned, with a name it does not know.
InvalidModeCall ==
    /\ d_call.op = "set_mode"
    /\ d_call.mode \notin KnownModes

\* C19: set_mode with a name other than ramp, hold, velocity and soft is rejected
\* with the error message and nothing else: it transfers no datagram, and the chip's
\* mode stays what it was; it is never taken for one of the four modes.
C19_InvalidModeRejected ==
    /\ [](InvalidModeCall => d_sent = <<>>)
    /\ [](InvalidModeCall /\ d_pc = "idle" => d_out = <<"Invalid mode.">>)
    /\ [][InvalidModeCall' => RAMP_MODE' = RAMP_MODE]_vars

\* set_mode("position") has returned on the first instance, whose chip is in hold
\* mode, as it was.
C19_Witness ==
    /\ Returned("set_mode", 1)
    /\ d_call.mode = "position"
    /\ RAMP_MODE[1] = 3
    /\ d_out = <<"Invalid mode.">>

(***************************************************************************)
(* Claims about the Done state.                                            *)
(***************************************************************************)
\* The number of times the completion notice, print("Completed"), was emitted.
Completions == Cardinality({i \in 1..Len(history) : history[i] = Ev("print", 0, 1)})

\* C20: once the state is Done the completion notice is emitted exactly once,
\* however many ticks follow, and a tick in Done writes no target position, moves
\* the pen neither way and reads nothing from the stream.
C20_DoneIdles ==
    /\ [](Completions <= 1)
    /\ [](state = S2_DONE /\ printed => Completions = 1)
    /\ [][state = S2_DONE /\ tk' # tk =>
            /\ state' = S2_DONE
            /\ \A i \in 1..Len(acts') : acts'[i] = Ev("print", 0, 1)
            /\ printed => history' = history
            /\ X_TARGET' = X_TARGET
            /\ penPos' = penPos
            /\ sendPos' = sendPos
            /\ sendOpen' = sendOpen]_vars

\* A tick in Done that came after the one that printed the notice: it did nothing,
\* and the notice has been emitted once.
C20_Witness ==
    /\ state = S2_DONE
    /\ printed
    /\ acts = <<>>
    /\ num = 4
    /\ Completions = 1


(***************************************************************************)
(* Claims about the Newton-Raphson stage, under SpecSolve.                 *)
(***************************************************************************)
\* The calls of NewtonRaphson made so far: one per line of Interpolated.txt read.
Invocations == IF nr_pc \in {"solve", "ValueError"} THEN nr_i + 1 ELSE nr_i

AbsAtMostTol(v) == Lo(v) >= 0 - 200 /\ Hi(v) <= 200

WithinTol(x, ang) ==
    /\ AbsAtMostTol(Minus(x[1], x_model(ang)[1]))
    /\ AbsAtMostTol(Minus(x[2], x_model(ang)[2]))

\* C22: whenever NewtonRaphson returns, the angles it returns are within tol of the
\* desired (x, y) in both components; the loop is left in no other way than by that
\* return (or by the exception of a singular Jacobian, which returns nothing).
C22_ReturnWithinTol ==
    [][/\ (nr_theta' # nr_theta \/ Len(send') > Len(send))
            => (nr_theta' = theta_n /\ WithinTol(x_des, nr_theta'))
       /\ (nr_pc = "solve" /\ nr_pc' # "solve")
            => (nr_pc' = "ValueError" \/ (nr_theta' = theta_n /\ WithinTol(x_des, theta_n)))]_vars

\* NewtonRaphson returned after at least one Newton step: angles other than its guess.
C22_Witness ==
    /\ nr_pc = "loop"
    /\ nr_i >= 1
    /\ nr_theta # guesses[nr_i]
    /\ WithinTol(x_des, nr_theta)

\* C23: startup() writes one MotionCommand per Waypoint, in the same order and with
\* the same pen kind (and the scaled coordinates of that waypoint), and the count it
\* returns is the number of MotionCommands written.
C23_OnePerWaypoint ==
    /\ Len(send) = nr_i
    /\ nr_i <= Len(interp)
    /\ \A k \in 1..Len(send) :
          /\ send[k].loc = interp[k].kind
          /\ send[k].xS = Scaled(interp[k].x, xSCALE_inv, xOFFSET)
          /\ send[k].yS = Scaled(interp[k].y, ySCALE_inv, yOFFSET)
    /\ (nr_pc = "returned" => (nr_ret = Len(send) /\ Len(send) = Len(interp)))

\* startup() returned 2 having written a PenUp and a PenDown command for a PenUp and
\* a PenDown waypoint.
C23_Witness ==
    /\ nr_pc = "returned"
    /\ nr_ret = 2
    /\ Len(send) = 2
    /\ send[1].loc = "PU"
    /\ send[2].loc = "PD"


(***************************************************************************)
(* Claims about the pen and the consumption of the stream, under SpecTask. *)
(***************************************************************************)
\* C24: from the end of the Init tick on, the pen flag equals the position of the
\* pen, i.e. the last of pen_up()/pen_down() issued to the actuator.
C24_FlagIsPenPosition == state # S0_INIT => (pen_is_up <=> penPos = "up")

\* The tick wrote joint targets of the command it works on (not the home targets).
WritesCommandTargets ==
    /\ state = S1_PLOT
    /\ state' = S1_PLOT
    /\ tk' # tk
    /\ \E k \in DOMAIN acts' : acts'[k].op = "target"

\* C25: whenever the joint targets of a PenDown command are written to the motors,
\* the last action issued to the pen actuator was pen_down().
C25_DownTargetsPenDown ==
    [][(WritesCommandTargets /\ pen_CMD' = "PD") => penPos' = "down"]_vars

\* The targets the tick wrote to motor m, in order.
TargetsWritten(as, m) ==
    SelectSeq(as, LAMBDA e : e.op = "target" /\ e.m = m)

\* C26: for a stream of n >= 1 commands, when the machine is in Done exactly the first
\* n-1 commands have been read, each read command had its joint targets written to
\* both motors in the tick that read it, the last command is never read, and every
\* target ever written is that of a command read (one of the first n-1) or the home
\* position of the finishing tick.
C26_LastNeverRead ==
    /\ [](num >= 1 => sendPos <= num - 1)
    /\ []((num >= 1 /\ state = S2_DONE) => sendPos = num - 1)
    /\ [][(num >= 1 /\ sendPos' # sendPos) =>
             /\ sendPos' = sendPos + 1
             /\ TargetsWritten(acts', 1) = <<Ev("target", 1, sendFile[sendPos'].th1)>>
             /\ TargetsWritten(acts', 2) = <<Ev("target", 2, sendFile[sendPos'].th2)>>]_vars
    /\ [][(num >= 1 /\ tk' # tk) =>
             \A k \in DOMAIN acts' :
                acts'[k].op = "target" =>
                   \/ (state = S1_PLOT /\ state' = S2_DONE
                         /\ acts'[k].v = (IF acts'[k].m = 1 THEN Home1 ELSE Home2))
                   \/ (sendPos' \in 1..(num - 1)
                         /\ acts'[k].v = (IF acts'[k].m = 1 THEN sendFile[sendPos'].th1
                                                            ELSE sendFile[sendPos'].th2))]_vars

\* Done after a stream of three commands, two of them read.
C26_Witness ==
    /\ state = S2_DONE
    /\ num = 3
    /\ sendPos = 2

\* The readline operations so far, as the numbers of the lines read.
LinesRead ==
    LET rs == SelectSeq(history, LAMBDA e : e.op = "readline")
    IN  [k \in DOMAIN rs |-> rs[k].v]

\* C27: in Plotting, for a stream of n >= 1 commands, the number of commands read is
\* the step index when the fetch-next flag is set and the step index plus one when it
\* is clear; the step index never decreases, grows by at most one per tick and never
\* exceeds n-1; the lines are read in order, none skipped and none twice.
C27_ReadsFollowStep ==
    /\ []((state = S1_PLOT /\ num >= 1) =>
             /\ sendPos = (IF update THEN step ELSE step + 1)
             /\ step >= 0
             /\ step <= num - 1)
    /\ [][(state = S1_PLOT /\ num >= 1) => step' \in {step, step + 1}]_vars
    /\ [](num >= 1 => LinesRead = [k \in 1..sendPos |-> k])

\* Plotting with the flag clear after a read, and later with the flag set at step 2.
C27_Witness ==
    /\ state = S1_PLOT
    /\ num = 4
    /\ step = 2
    /\ update = FALSE
    /\ sendPos = 3

\* C28: if every commanded motion makes both motors arrive, the machine reaches Done,
\* for every command count n >= 0.
C28_ReachesDone == <>(state = S2_DONE)


(***************************************************************************)
(* Claims about the two drivers on the shared bus.                         *)
(***************************************************************************)
\* The instances whose chip-select line is low.
Selected == {m \in Motors : nCS[m] = 0}

\* The chip registers and the receive buffer of motor m.
ChipState(m) == <<X_TARGET[m], X_ACTUAL[m], RAMP_MODE[m], RX_buf[m]>>

\* C29 (under SpecDriver): at every moment at most one chip-select line is low, and a
\* 4-byte transfer is received only by the motor whose method issued it: that motor's
\* line alone is low during the transfer, and the registers and the receive buffer of
\* the other motor are left as they were.
C29_OneSelectedAtATime ==
    /\ [](Cardinality(Selected) <= 1)
    /\ [][(d_pc = "low" /\ d_pc' = "sent") =>
             /\ Selected = {d_call.m}
             /\ \A m \in Motors \ {d_call.m} :
                   /\ X_TARGET'[m] = X_TARGET[m]
                   /\ X_ACTUAL'[m] = X_ACTUAL[m]
                   /\ RAMP_MODE'[m] = RAMP_MODE[m]
                   /\ RX_buf'[m] = RX_buf[m]]_vars

\* The second motor's target has just been written while the first motor, built and
\* given another target, keeps its own.
C29_Witness ==
    /\ d_pc = "sent"
    /\ d_call.op = "set_target_pos"
    /\ d_call.m = 2
    /\ built[1]
    /\ X_TARGET[2] = usteps(6)
    /\ X_TARGET[1] # X_TARGET[2]
    /\ X_TARGET[1] # 0

\* The transfer in flight writes X_TARGET.
TargetWrite ==
    /\ d_pc = "low"
    /\ d_pc' = "sent"
    /\ TX_buf[d_call.m][1] = X_TARGET_ADDR * 2

\* C30 (under SpecMain): whenever a target position is written to a motor, that
\* motor's chip is in ramp mode: the hold phase of set_zero has returned to ramp
\* before any X_TARGET write, and between calls a constructed driver is in ramp mode.
C30_TargetWrittenInRamp ==
    /\ [][TargetWrite => (d_call.op = "set_target_pos" /\ RAMP_MODE[d_call.m] = 0)]_vars
    /\ [](d_pc = "idle" => \A m \in Motors : built[m] => RAMP_MODE[m] = 0)
    /\ [][(d_pc = "low" /\ d_pc' = "sent" /\ RAMP_MODE' # RAMP_MODE
              /\ RAMP_MODE[d_call.m] = 0) =>
             (d_call.op = "set_zero" /\ RAMP_MODE'[d_call.m] = 3)]_vars
    /\ [][RAMP_MODE' # RAMP_MODE => (d_pc = "low" /\ d_pc' = "sent")]_vars

\* A target is being written to a motor that set_zero has placed at an offset.
C30_Witness ==
    /\ d_pc = "sent"
    /\ d_call.op = "set_target_pos"
    /\ X_ACTUAL[d_call.m] = usteps(6)
    /\ X_TARGET[d_call.m] = usteps(10)
    /\ RAMP_MODE[d_call.m] = 0


(***************************************************************************)
(* Claims about set_velocity and the datagram header, under SpecApi.       *)
(***************************************************************************)
\* target_vel as a 12-bit two's-complement number.
TwosComplement12(v) == v % 4096

Header(reg, access) == reg * 2 + access

ExpectedHeaders(c) ==
    CASE c.op = "StepperDriver" ->
            <<Header(IF_CONF, 0), Header(V_MIN, 0), Header(V_MAX, 0), Header(PULSE_RAMP_DIV, 0),
              Header(PMUL_PDIV, 0), Header(A_MAX, 0), Header(RAMP_MODE_ADDR, 0)>>
      [] c.op = "set_mode" ->
            IF c.mode \in {"ramp", "hold", "velocity", "soft"}
            THEN <<Header(RAMP_MODE_ADDR, 0)>> ELSE <<>>
      [] c.op = "set_target_pos" -> <<Header(X_TARGET_ADDR, 0)>>
      [] c.op = "set_zero" ->
            <<Header(RAMP_MODE_ADDR, 0), Header(X_ACTUAL_ADDR, 0), Header(RAMP_MODE_ADDR, 0)>>
      [] c.op = "set_velocity" -> <<Header(RAMP_MODE_ADDR, 0), Header(V_TARGET, 0)>>
      [] c.op = "get_target_pos" -> <<Header(X_TARGET_ADDR, 1)>>
      [] c.op = "get_pos" -> <<Header(X_ACTUAL_ADDR, 1)>>
      [] c.op = "arrived" -> <<Header(X_ACTUAL_ADDR, 1), Header(X_TARGET_ADDR, 1)>>
      [] c.op = "test_version" -> <<Header(TYPE_VERSION, 1)>>
      [] OTHER -> <<>>

\* C32: every datagram sent has byte 0 = (register << 1) | access bit for the register
\* of the operation, access bit 0 in the constructor and every set_* method, 1 in
\* get_pos, get_target_pos (also inside arrived) and test_version; a read datagram has
\* zero in bytes 1-3; every byte is a byte. A method that has returned sent them all.
C32_DatagramHeader ==
    /\ Len(d_sent) <= Len(ExpectedHeaders(d_call))
    /\ \A k \in DOMAIN d_sent :
          /\ d_sent[k][1] = ExpectedHeaders(d_call)[k]
          /\ \A b \in 1..4 : d_sent[k][b] \in 0..255
          /\ (d_sent[k][1] % 2 = 1 => d_sent[k] = <<d_sent[k][1], 0, 0, 0>>)
    /\ (d_pc = "idle" => Len(d_sent) = Len(ExpectedHeaders(d_call)))
    /\ (d_pc \in {"low", "sent"} =>
          TX_buf[d_call.m][1] = ExpectedHeaders(d_call)[Len(d_sent) + (IF d_pc = "low" THEN 1 ELSE 0)])

\* test_version, arrived and set_velocity have each sent their datagrams: here
\* test_version has returned after its read of TYPE_VERSION.
C32_Witness ==
    /\ d_pc = "idle"
    /\ d_call.op = "test_version"
    /\ d_sent = <<<<115, 0, 0, 0>>>>

====
